---- MODULE Spec2Model ----
(***************************************************************************)
(* helm-commander: the drift detection engine and the owner detector.      *)
(*                                                                         *)
(* detect_drift (core/drift_engine.py) parses the stored manifest of a     *)
(* release, fetches every named resource through K8sClient                 *)
(* (core/k8s_client.py), strips the server-managed fields of both sides,   *)
(* compares them with DeepDiff(ignore_order=True) and appends one          *)
(* ResourceDiff per resource.                                              *)
(*                                                                         *)
(* detect_owner (core/owner_detector.py) looks for Argo CD and Flux CD     *)
(* marks on the rendered resources, lists the Flux HelmReleases and the    *)
(* k3s HelmCharts, reads app.kubernetes.io/managed-by, and falls back to   *)
(* native Helm.                                                            *)
(*                                                                         *)
(* Python strings are modelled as sequences of one-character strings, so   *)
(* that lower(), startswith(), endswith(), "in" and rsplit() are computed   *)
(* and not assumed.  S("lit") is the literal "lit" in that form.           *)
(***************************************************************************)
EXTENDS Integers, Sequences, FiniteSets, TLC

VARIABLES release, pc, resources, idx, scope, diffs, fetches, requests, outcomes, live, ret,
          opc, checks, lookups, answers, owner,
          index, sidecar, clock, _index_cache, loader,
          releases, repos, upc, results,
          secrets, query, spc, objects, best_version, best_obj, got

\* the state of a run of detect_owner (core/owner_detector.py): its position,
\* the checks it has evaluated, the custom-resource lookups it has issued, their
\* outcomes, and what it returned
ownerVars == <<opc, checks, lookups, answers, owner>>

\* the state of a run of detect_drift
driftVars == <<pc, resources, idx, scope, diffs, fetches, requests, outcomes, live, ret>>

\* the files and processes of _load_index (core/repo_resolver.py): the index
\* file and its JSON sidecar, each with content and modification time, the
\* clock that stamps the writes, and per process the module-level _index_cache
\* and the position and locals of its run of _load_index
indexVars == <<index, sidecar, clock, _index_cache, loader>>

\* a run of check_updates (core/update_checker.py): the releases it is given,
\* the repositories with the data _load_index returns for their index, the
\* position of its loop and its results
updateVars == <<releases, repos, upc, results>>

\* a call of ReleaseStore.get_release (core/release_store.py): the storage
\* objects of the cluster in the order the API server lists them, the name and
\* namespace asked for, the position of the call, the objects the list call
\* returned, the locals of the loop and the value returned
storeVars == <<secrets, query, spc, objects, best_version, best_obj, got>>

\* what the actions of one component leave alone
outsideDrift == <<ownerVars, indexVars, updateVars, storeVars>>

outsideOwner == <<driftVars, indexVars, updateVars, storeVars>>

outsideIndex == <<release, driftVars, ownerVars, updateVars, storeVars>>

outsideUpdate == <<release, driftVars, ownerVars, indexVars, storeVars>>

outsideStore == <<release, driftVars, ownerVars, indexVars, updateVars>>

vars == <<release, pc, resources, idx, scope, diffs, fetches, requests, outcomes, live, ret,
          opc, checks, lookups, answers, owner,
          index, sidecar, clock, _index_cache, loader,
          releases, repos, upc, results,
          secrets, query, spc, objects, best_version, best_obj, got>>

(***************************************************************************)
(* String literals of the sources and of the inputs.                       *)
(***************************************************************************)
S(x) ==
  CASE x = "" -> <<>>
    [] x = "ClusterRole" -> <<"C", "l", "u", "s", "t", "e", "r", "R", "o", "l", "e">>
    [] x = "ClusterRoleBinding" -> <<"C", "l", "u", "s", "t", "e", "r", "R", "o", "l", "e", "B", "i", "n", "d", "i", "n", "g">>
    [] x = "IngressClass" -> <<"I", "n", "g", "r", "e", "s", "s", "C", "l", "a", "s", "s">>
    [] x = "CustomResourceDefinition" -> <<"C", "u", "s", "t", "o", "m", "R", "e", "s", "o", "u", "r", "c", "e", "D", "e", "f", "i", "n", "i", "t", "i", "o", "n">>
    [] x = "Namespace" -> <<"N", "a", "m", "e", "s", "p", "a", "c", "e">>
    [] x = "PersistentVolume" -> <<"P", "e", "r", "s", "i", "s", "t", "e", "n", "t", "V", "o", "l", "u", "m", "e">>
    [] x = "Node" -> <<"N", "o", "d", "e">>
    [] x = "StorageClass" -> <<"S", "t", "o", "r", "a", "g", "e", "C", "l", "a", "s", "s">>
    [] x = "PriorityClass" -> <<"P", "r", "i", "o", "r", "i", "t", "y", "C", "l", "a", "s", "s">>
    [] x = "MutatingWebhookConfiguration" -> <<"M", "u", "t", "a", "t", "i", "n", "g", "W", "e", "b", "h", "o", "o", "k", "C", "o", "n", "f", "i", "g", "u", "r", "a", "t", "i", "o", "n">>
    [] x = "ValidatingWebhookConfiguration" -> <<"V", "a", "l", "i", "d", "a", "t", "i", "n", "g", "W", "e", "b", "h", "o", "o", "k", "C", "o", "n", "f", "i", "g", "u", "r", "a", "t", "i", "o", "n">>
    [] x = "PodSecurityPolicy" -> <<"P", "o", "d", "S", "e", "c", "u", "r", "i", "t", "y", "P", "o", "l", "i", "c", "y">>
    [] x = "Cluster" -> <<"C", "l", "u", "s", "t", "e", "r">>
    [] x = "apps/v1" -> <<"a", "p", "p", "s", "/", "v", "1">>
    [] x = "v1" -> <<"v", "1">>
    [] x = "rbac.authorization.k8s.io/v1" -> <<"r", "b", "a", "c", ".", "a", "u", "t", "h", "o", "r", "i", "z", "a", "t", "i", "o", "n", ".", "k", "8", "s", ".", "i", "o", "/", "v", "1">>
    [] x = "networking.k8s.io/v1" -> <<"n", "e", "t", "w", "o", "r", "k", "i", "n", "g", ".", "k", "8", "s", ".", "i", "o", "/", "v", "1">>
    [] x = "apiextensions.k8s.io/v1" -> <<"a", "p", "i", "e", "x", "t", "e", "n", "s", "i", "o", "n", "s", ".", "k", "8", "s", ".", "i", "o", "/", "v", "1">>
    [] x = "service" -> <<"s", "e", "r", "v", "i", "c", "e">>
    [] x = "configmap" -> <<"c", "o", "n", "f", "i", "g", "m", "a", "p">>
    [] x = "secret" -> <<"s", "e", "c", "r", "e", "t">>
    [] x = "serviceaccount" -> <<"s", "e", "r", "v", "i", "c", "e", "a", "c", "c", "o", "u", "n", "t">>
    [] x = "persistentvolumeclaim" -> <<"p", "e", "r", "s", "i", "s", "t", "e", "n", "t", "v", "o", "l", "u", "m", "e", "c", "l", "a", "i", "m">>
    [] x = "pod" -> <<"p", "o", "d">>
    [] x = "endpoints" -> <<"e", "n", "d", "p", "o", "i", "n", "t", "s">>
    [] x = "deployment" -> <<"d", "e", "p", "l", "o", "y", "m", "e", "n", "t">>
    [] x = "statefulset" -> <<"s", "t", "a", "t", "e", "f", "u", "l", "s", "e", "t">>
    [] x = "daemonset" -> <<"d", "a", "e", "m", "o", "n", "s", "e", "t">>
    [] x = "replicaset" -> <<"r", "e", "p", "l", "i", "c", "a", "s", "e", "t">>
    [] x = "namespace" -> <<"n", "a", "m", "e", "s", "p", "a", "c", "e">>
    [] x = "persistentvolume" -> <<"p", "e", "r", "s", "i", "s", "t", "e", "n", "t", "v", "o", "l", "u", "m", "e">>
    [] x = "node" -> <<"n", "o", "d", "e">>
    [] x = "Service" -> <<"S", "e", "r", "v", "i", "c", "e">>
    [] x = "ConfigMap" -> <<"C", "o", "n", "f", "i", "g", "M", "a", "p">>
    [] x = "Secret" -> <<"S", "e", "c", "r", "e", "t">>
    [] x = "ServiceAccount" -> <<"S", "e", "r", "v", "i", "c", "e", "A", "c", "c", "o", "u", "n", "t">>
    [] x = "PersistentVolumeClaim" -> <<"P", "e", "r", "s", "i", "s", "t", "e", "n", "t", "V", "o", "l", "u", "m", "e", "C", "l", "a", "i", "m">>
    [] x = "Pod" -> <<"P", "o", "d">>
    [] x = "Endpoints" -> <<"E", "n", "d", "p", "o", "i", "n", "t", "s">>
    [] x = "Deployment" -> <<"D", "e", "p", "l", "o", "y", "m", "e", "n", "t">>
    [] x = "StatefulSet" -> <<"S", "t", "a", "t", "e", "f", "u", "l", "S", "e", "t">>
    [] x = "DaemonSet" -> <<"D", "a", "e", "m", "o", "n", "S", "e", "t">>
    [] x = "ReplicaSet" -> <<"R", "e", "p", "l", "i", "c", "a", "S", "e", "t">>
    [] x = "ControllerRevision" -> <<"C", "o", "n", "t", "r", "o", "l", "l", "e", "r", "R", "e", "v", "i", "s", "i", "o", "n">>
    [] x = "ReplicationController" -> <<"R", "e", "p", "l", "i", "c", "a", "t", "i", "o", "n", "C", "o", "n", "t", "r", "o", "l", "l", "e", "r">>
    [] x = "Ingress" -> <<"I", "n", "g", "r", "e", "s", "s">>
    [] x = "NetworkPolicy" -> <<"N", "e", "t", "w", "o", "r", "k", "P", "o", "l", "i", "c", "y">>
    [] x = "Job" -> <<"J", "o", "b">>
    [] x = "Gateway" -> <<"G", "a", "t", "e", "w", "a", "y">>
    [] x = "ClusterWidget" -> <<"C", "l", "u", "s", "t", "e", "r", "W", "i", "d", "g", "e", "t">>
    [] x = "ClusterIssuer" -> <<"C", "l", "u", "s", "t", "e", "r", "I", "s", "s", "u", "e", "r">>
    [] x = "Widget" -> <<"W", "i", "d", "g", "e", "t">>
    [] x = "clusterrole" -> <<"c", "l", "u", "s", "t", "e", "r", "r", "o", "l", "e">>
    [] x = "example.com/v1" -> <<"e", "x", "a", "m", "p", "l", "e", ".", "c", "o", "m", "/", "v", "1">>
    [] x = "storage.k8s.io/v1" -> <<"s", "t", "o", "r", "a", "g", "e", ".", "k", "8", "s", ".", "i", "o", "/", "v", "1">>
    [] x = "batch/v1" -> <<"b", "a", "t", "c", "h", "/", "v", "1">>
    [] x = "rbac.authorization.k8s.io/v1beta1" -> <<"r", "b", "a", "c", ".", "a", "u", "t", "h", "o", "r", "i", "z", "a", "t", "i", "o", "n", ".", "k", "8", "s", ".", "i", "o", "/", "v", "1", "b", "e", "t", "a", "1">>
    [] x = "default" -> <<"d", "e", "f", "a", "u", "l", "t">>
    [] x = "prod" -> <<"p", "r", "o", "d">>
    [] x = "web" -> <<"w", "e", "b">>
    [] x = "cfg" -> <<"c", "f", "g">>
    [] x = "apiVersion" -> <<"a", "p", "i", "V", "e", "r", "s", "i", "o", "n">>
    [] x = "kind" -> <<"k", "i", "n", "d">>
    [] x = "metadata" -> <<"m", "e", "t", "a", "d", "a", "t", "a">>
    [] x = "name" -> <<"n", "a", "m", "e">>
    [] x = "data" -> <<"d", "a", "t", "a">>
    [] x = "spec" -> <<"s", "p", "e", "c">>
    [] x = "replicas" -> <<"r", "e", "p", "l", "i", "c", "a", "s">>
    [] x = "status" -> <<"s", "t", "a", "t", "u", "s">>
    [] x = "uid" -> <<"u", "i", "d">>
    [] x = "k" -> <<"k">>
    [] x = "v" -> <<"v">>
    [] x = "v2" -> <<"v", "2">>
    [] x = "a" -> <<"a">>
    [] x = "/" -> <<"/">>
    [] x = "." -> <<".">>
    [] x = "s" -> <<"s">>
    [] x = "y" -> <<"y">>
    [] x = "es" -> <<"e", "s">>
    [] x = "ies" -> <<"i", "e", "s">>
    [] x = "metadata.resourceVersion" -> <<"m", "e", "t", "a", "d", "a", "t", "a", ".", "r", "e", "s", "o", "u", "r", "c", "e", "V", "e", "r", "s", "i", "o", "n">>
    [] x = "metadata.uid" -> <<"m", "e", "t", "a", "d", "a", "t", "a", ".", "u", "i", "d">>
    [] x = "metadata.creationTimestamp" -> <<"m", "e", "t", "a", "d", "a", "t", "a", ".", "c", "r", "e", "a", "t", "i", "o", "n", "T", "i", "m", "e", "s", "t", "a", "m", "p">>
    [] x = "metadata.generation" -> <<"m", "e", "t", "a", "d", "a", "t", "a", ".", "g", "e", "n", "e", "r", "a", "t", "i", "o", "n">>
    [] x = "metadata.managedFields" -> <<"m", "e", "t", "a", "d", "a", "t", "a", ".", "m", "a", "n", "a", "g", "e", "d", "F", "i", "e", "l", "d", "s">>
    [] x = "metadata.selfLink" -> <<"m", "e", "t", "a", "d", "a", "t", "a", ".", "s", "e", "l", "f", "L", "i", "n", "k">>
    [] x = "metadata.annotations.kubectl.kubernetes.io/last-applied-configuration" -> <<"m", "e", "t", "a", "d", "a", "t", "a", ".", "a", "n", "n", "o", "t", "a", "t", "i", "o", "n", "s", ".", "k", "u", "b", "e", "c", "t", "l", ".", "k", "u", "b", "e", "r", "n", "e", "t", "e", "s", ".", "i", "o", "/", "l", "a", "s", "t", "-", "a", "p", "p", "l", "i", "e", "d", "-", "c", "o", "n", "f", "i", "g", "u", "r", "a", "t", "i", "o", "n">>
    [] x = "resourceVersion" -> <<"r", "e", "s", "o", "u", "r", "c", "e", "V", "e", "r", "s", "i", "o", "n">>
    [] x = "creationTimestamp" -> <<"c", "r", "e", "a", "t", "i", "o", "n", "T", "i", "m", "e", "s", "t", "a", "m", "p">>
    [] x = "generation" -> <<"g", "e", "n", "e", "r", "a", "t", "i", "o", "n">>
    [] x = "managedFields" -> <<"m", "a", "n", "a", "g", "e", "d", "F", "i", "e", "l", "d", "s">>
    [] x = "selfLink" -> <<"s", "e", "l", "f", "L", "i", "n", "k">>
    [] x = "annotations" -> <<"a", "n", "n", "o", "t", "a", "t", "i", "o", "n", "s">>
    [] x = "kubectl.kubernetes.io/last-applied-configuration" -> <<"k", "u", "b", "e", "c", "t", "l", ".", "k", "u", "b", "e", "r", "n", "e", "t", "e", "s", ".", "i", "o", "/", "l", "a", "s", "t", "-", "a", "p", "p", "l", "i", "e", "d", "-", "c", "o", "n", "f", "i", "g", "u", "r", "a", "t", "i", "o", "n">>
    [] x = "b" -> <<"b">>
    [] x = "labels" -> <<"l", "a", "b", "e", "l", "s">>
    [] x = "template" -> <<"t", "e", "m", "p", "l", "a", "t", "e">>
    [] x = "other" -> <<"o", "t", "h", "e", "r">>
    [] x = "argocd.argoproj.io/instance" -> <<"a", "r", "g", "o", "c", "d", ".", "a", "r", "g", "o", "p", "r", "o", "j", ".", "i", "o", "/", "i", "n", "s", "t", "a", "n", "c", "e">>
    [] x = "argocd.argoproj.io/tracking-id" -> <<"a", "r", "g", "o", "c", "d", ".", "a", "r", "g", "o", "p", "r", "o", "j", ".", "i", "o", "/", "t", "r", "a", "c", "k", "i", "n", "g", "-", "i", "d">>
    [] x = "helm.toolkit.fluxcd.io/name" -> <<"h", "e", "l", "m", ".", "t", "o", "o", "l", "k", "i", "t", ".", "f", "l", "u", "x", "c", "d", ".", "i", "o", "/", "n", "a", "m", "e">>
    [] x = "app.kubernetes.io/managed-by" -> <<"a", "p", "p", ".", "k", "u", "b", "e", "r", "n", "e", "t", "e", "s", ".", "i", "o", "/", "m", "a", "n", "a", "g", "e", "d", "-", "b", "y">>
    [] x = "helm" -> <<"h", "e", "l", "m">>
    [] x = "Helm" -> <<"H", "e", "l", "m">>
    [] x = "HELM" -> <<"H", "E", "L", "M">>
    [] x = "argocd" -> <<"a", "r", "g", "o", "c", "d">>
    [] x = "myapp" -> <<"m", "y", "a", "p", "p">>
    [] x = "helm.toolkit.fluxcd.io" -> <<"h", "e", "l", "m", ".", "t", "o", "o", "l", "k", "i", "t", ".", "f", "l", "u", "x", "c", "d", ".", "i", "o">>
    [] x = "v2beta1" -> <<"v", "2", "b", "e", "t", "a", "1">>
    [] x = "helmreleases" -> <<"h", "e", "l", "m", "r", "e", "l", "e", "a", "s", "e", "s">>
    [] x = "helm.cattle.io" -> <<"h", "e", "l", "m", ".", "c", "a", "t", "t", "l", "e", ".", "i", "o">>
    [] x = "helmcharts" -> <<"h", "e", "l", "m", "c", "h", "a", "r", "t", "s">>
    [] x = "kube-system" -> <<"k", "u", "b", "e", "-", "s", "y", "s", "t", "e", "m">>
    [] x = "items" -> <<"i", "t", "e", "m", "s">>
    [] x = "entries" -> <<"e", "n", "t", "r", "i", "e", "s">>
    [] x = "version" -> <<"v", "e", "r", "s", "i", "o", "n">>
    [] x = "appVersion" -> <<"a", "p", "p", "V", "e", "r", "s", "i", "o", "n">>
    [] x = "digest" -> <<"d", "i", "g", "e", "s", "t">>
    [] x = "nginx" -> <<"n", "g", "i", "n", "x">>
    [] x = "redis" -> <<"r", "e", "d", "i", "s">>
    [] x = "1.0.0" -> <<"1", ".", "0", ".", "0">>
    [] x = "1.1.0" -> <<"1", ".", "1", ".", "0">>
    [] x = "1" -> <<"1">>
    [] x = "2" -> <<"2">>
    [] x = "d" -> <<"d">>
    [] x = "example.com/a/v1" -> <<"e", "x", "a", "m", "p", "l", "e", ".", "c", "o", "m", "/", "a", "/", "v", "1">>
    [] x = "example.com/a" -> <<"e", "x", "a", "m", "p", "l", "e", ".", "c", "o", "m", "/", "a">>
    [] x = "ingresses" -> <<"i", "n", "g", "r", "e", "s", "s", "e", "s">>
    [] x = "networkpolicies" -> <<"n", "e", "t", "w", "o", "r", "k", "p", "o", "l", "i", "c", "i", "e", "s">>
    [] x = "jobs" -> <<"j", "o", "b", "s">>
    [] x = "gatewaies" -> <<"g", "a", "t", "e", "w", "a", "i", "e", "s">>
    [] x = "gateways" -> <<"g", "a", "t", "e", "w", "a", "y", "s">>
    [] x = "1.0.1" -> <<"1", ".", "0", ".", "1">>
    [] x = "2.0.0" -> <<"2", ".", "0", ".", "0">>
    [] x = "v1.1.0" -> <<"v", "1", ".", "1", ".", "0">>
    [] x = "latest" -> <<"l", "a", "t", "e", "s", "t">>
    [] x = "stable" -> <<"s", "t", "a", "b", "l", "e">>
    [] x = "bitnami" -> <<"b", "i", "t", "n", "a", "m", "i">>
    [] x = "0" -> <<"0">>
    [] x = "10" -> <<"1", "0">>
    [] x = "api" -> <<"a", "p", "i">>
    [] x = "owner" -> <<"o", "w", "n", "e", "r">>
    [] x = "deployed" -> <<"d", "e", "p", "l", "o", "y", "e", "d">>
    [] x = "superseded" -> <<"s", "u", "p", "e", "r", "s", "e", "d", "e", "d">>
    [] x = "helm.sh/release.v1" -> <<"h", "e", "l", "m", ".", "s", "h", "/", "r", "e", "l", "e", "a", "s", "e", ".", "v", "1">>
    [] x = "Opaque" -> <<"O", "p", "a", "q", "u", "e">>

(***************************************************************************)
(* str methods used by the code.                                           *)
(***************************************************************************)
LowerChar(c) ==
  CASE c = "A" -> "a" [] c = "B" -> "b" [] c = "C" -> "c" [] c = "D" -> "d"
    [] c = "E" -> "e" [] c = "F" -> "f" [] c = "G" -> "g" [] c = "H" -> "h"
    [] c = "I" -> "i" [] c = "J" -> "j" [] c = "K" -> "k" [] c = "L" -> "l"
    [] c = "M" -> "m" [] c = "N" -> "n" [] c = "O" -> "o" [] c = "P" -> "p"
    [] c = "Q" -> "q" [] c = "R" -> "r" [] c = "S" -> "s" [] c = "T" -> "t"
    [] c = "U" -> "u" [] c = "V" -> "v" [] c = "W" -> "w" [] c = "X" -> "x"
    [] c = "Y" -> "y" [] c = "Z" -> "z" [] OTHER -> c

\* str.lower()
Lower(s) == [i \in 1..Len(s) |-> LowerChar(s[i])]

\* str.startswith(p)
StartsWith(s, p) == Len(s) >= Len(p) /\ SubSeq(s, 1, Len(p)) = p

\* str.endswith(p)
EndsWith(s, p) == Len(s) >= Len(p) /\ SubSeq(s, Len(s) - Len(p) + 1, Len(s)) = p

\* c in s, for a one-character c
Contains(s, c) == \E i \in 1..Len(s) : s[i] = c

\* the index of the last occurrence of c in s (c occurs in s)
LastIndex(s, c) == CHOOSE i \in 1..Len(s) : s[i] = c /\ \A j \in (i+1)..Len(s) : s[j] # c

\* s.rsplit(c, 1) for an s that contains c: <<before, after>>
RSplit(s, c) == <<SubSeq(s, 1, LastIndex(s, c) - 1), SubSeq(s, LastIndex(s, c) + 1, Len(s))>>

\* Python truthiness of a string
Truthy(s) == s # <<>>

\* a or b, on strings
Or(a, b) == IF Truthy(a) THEN a ELSE b

(***************************************************************************)
(* Object trees (YAML documents, live objects).  A dict is a set of        *)
(* <<key, node>> pairs with distinct keys; a node is a record of one shape *)
(* for every Python type, so that any two nodes can be compared.           *)
(***************************************************************************)
Null == [t |-> "scalar", ty |-> "null", str |-> <<>>, n |-> 0, l |-> <<>>, m |-> {}]

Str(s) == [t |-> "scalar", ty |-> "str", str |-> s, n |-> 0, l |-> <<>>, m |-> {}]

Num(i) == [t |-> "scalar", ty |-> "int", str |-> <<>>, n |-> i, l |-> <<>>, m |-> {}]

List(seq) == [t |-> "list", ty |-> "list", str |-> <<>>, n |-> 0, l |-> seq, m |-> {}]

Dict(pairs) == [t |-> "map", ty |-> "dict", str |-> <<>>, n |-> 0, l |-> <<>>, m |-> pairs]

\* what yaml.safe_load_all does on reaching a document it cannot parse: it raises
Malformed == [t |-> "malformed", ty |-> "error", str |-> <<>>, n |-> 0, l |-> <<>>, m |-> {}]

\* the value dict.get(k) gives for an absent key when no default applies
Absent == [t |-> "absent", ty |-> "absent", str |-> <<>>, n |-> 0, l |-> <<>>, m |-> {}]

Keys(d) == { p[1] : p \in d }

\* d.get(k, default)
Get(d, k, default) == IF k \in Keys(d) THEN (CHOOSE p \in d : p[1] = k)[2] ELSE default

\* d with d[k] = v
Put(d, k, v) == { p \in d : p[1] # k } \cup { <<k, v>> }

\* bool(node)
NodeTruthy(node) ==
  CASE node.t = "map" -> node.m # {}
    [] node.t = "list" -> node.l # <<>>
    [] node.ty = "str" -> node.str # <<>>
    [] node.ty = "int" -> node.n # 0
    [] OTHER -> FALSE

\* the string a ParsedResource field holds for a node that is a string (or absent)
StrOf(node) == IF node.ty = "str" THEN node.str ELSE <<>>

(***************************************************************************)
(* utils/manifest_parser.py                                                *)
(***************************************************************************)
ParsedResource(doc) ==
  LET md == Get(doc.m, S("metadata"), Dict({}))
      metadata == IF NodeTruthy(md) THEN md.m ELSE {}
  IN [api_version |-> StrOf(Get(doc.m, S("apiVersion"), Str(<<>>))),
      kind |-> StrOf(Get(doc.m, S("kind"), Str(<<>>))),
      name |-> StrOf(Get(metadata, S("name"), Str(<<>>))),
      namespace |-> StrOf(Get(metadata, S("namespace"), Str(<<>>))),
      raw |-> doc.m]

\* mutant: "or {}" left out, a null metadata is read like a mapping
metadata_get_raises_on_null(doc) ==
  /\ NodeTruthy(doc) /\ doc.t = "map"
  /\ Get(doc.m, S("metadata"), Dict({})).t # "map"

\* metadata.get(...) raises AttributeError: the document is a mapping whose
\* metadata is neither empty, null nor a mapping
metadata_get_raises(doc) ==
  /\ NodeTruthy(doc) /\ doc.t = "map"
  /\ NodeTruthy(Get(doc.m, S("metadata"), Dict({})))
  /\ Get(doc.m, S("metadata"), Dict({})).t # "map"

\* mutant: a document without kind is skipped as well
RECURSIVE parse_docs_skip_kindless(_)
parse_docs_skip_kindless(docs) ==
  IF docs = <<>> THEN <<>>
  ELSE LET doc == Head(docs) IN
       IF ~NodeTruthy(doc) \/ doc.t # "map" \/ S("kind") \notin Keys(doc.m)
       THEN parse_docs_skip_kindless(Tail(docs))
       ELSE <<ParsedResource(doc)>> \o parse_docs_skip_kindless(Tail(docs))

\* the loop of parse_manifest over the documents the YAML loader yields
RECURSIVE parse_docs(_)
parse_docs(docs) ==
  IF docs = <<>> THEN <<>>
  ELSE LET doc == Head(docs) IN
       IF ~NodeTruthy(doc) \/ doc.t # "map" THEN parse_docs(Tail(docs))
       ELSE <<ParsedResource(doc)>> \o parse_docs(Tail(docs))

\* parse_manifest: the loader raises inside the loop on a malformed document,
\* and so does the loop body on a metadata it cannot read
parse_manifest(manifest) ==
  IF \E i \in 1..Len(manifest) : manifest[i].t = "malformed" \/ metadata_get_raises(manifest[i])
  THEN [raised |-> TRUE, resources |-> <<>>]
  ELSE [raised |-> FALSE, resources |-> parse_docs(manifest)]

(***************************************************************************)
(* core/k8s_client.py: the Scope Classifier                                *)
(***************************************************************************)
CLUSTER_SCOPED_KINDS ==
  { S("ClusterRole"), S("ClusterRoleBinding"), S("IngressClass"),
    S("CustomResourceDefinition"), S("Namespace"), S("PersistentVolume"),
    S("Node"), S("StorageClass"), S("PriorityClass"),
    S("MutatingWebhookConfiguration"), S("ValidatingWebhookConfiguration"),
    S("PodSecurityPolicy") }

\* mutant: the Cluster prefix decides whatever the namespace
is_cluster_scoped_any_namespace(kind, namespace) ==
  kind \in CLUSTER_SCOPED_KINDS \/ StartsWith(kind, S("Cluster"))

is_cluster_scoped(kind, namespace) ==
  IF kind \in CLUSTER_SCOPED_KINDS THEN TRUE
  ELSE IF StartsWith(kind, S("Cluster")) /\ ~Truthy(namespace) THEN TRUE
  ELSE FALSE

\* mutant: a trailing "y" is kept and "s" appended
_kind_to_plural_keep_y(kind) ==
  LET k == Lower(kind) IN
  IF EndsWith(k, S("s")) THEN k \o S("es")
  ELSE k \o S("s")

_kind_to_plural(kind) ==
  LET k == Lower(kind) IN
  IF EndsWith(k, S("s")) THEN k \o S("es")
  ELSE IF EndsWith(k, S("y")) THEN SubSeq(k, 1, Len(k) - 1) \o S("ies")
  ELSE k \o S("s")

(***************************************************************************)
(* core/k8s_client.py: the Gateway.  Each operation is modelled by the     *)
(* one client call it makes (a request to the cluster API), or NoCall when *)
(* it returns None without calling the client, and by what it does with    *)
(* the outcome of that call.                                               *)
(***************************************************************************)
Call(op, api, method, group, version, plural, namespace, name) ==
  [op |-> op, api |-> api, method |-> method, group |-> group, version |-> version,
   plural |-> plural, namespace |-> namespace, name |-> name]

NoCall == Call("none", "none", "none", <<>>, <<>>, <<>>, <<>>, <<>>)

\* a client call made without the _request_timeout keyword: the client waits
\* for the answer without a limit
NoTimeout == 0

\* the _request_timeout keyword, in seconds, of the call of a client method:
\* 30 in list_helm_secrets and list_helm_configmaps, absent in every other call
_request_timeout(method) ==
  IF method \in { "list_namespaced_secret", "list_secret_for_all_namespaces",
                  "list_namespaced_config_map", "list_config_map_for_all_namespaces" }
  THEN 30
  ELSE NoTimeout

core_method_map ==
  { <<S("service"), "read_namespaced_service">>,
    <<S("configmap"), "read_namespaced_config_map">>,
    <<S("secret"), "read_namespaced_secret">>,
    <<S("serviceaccount"), "read_namespaced_service_account">>,
    <<S("persistentvolumeclaim"), "read_namespaced_persistent_volume_claim">>,
    <<S("pod"), "read_namespaced_pod">>,
    <<S("endpoints"), "read_namespaced_endpoints">> }

\* mutant: a kind outside the method map is read on the dynamic path
_get_core_resource_dynamic(kind, name, namespace) ==
  LET method == Get(core_method_map, Lower(kind), "None") IN
  IF method = "None"
  THEN Call("get_resource", "custom", "get_namespaced_custom_object",
            <<>>, S("v1"), _kind_to_plural(kind), namespace, name)
  ELSE Call("get_resource", "core_v1", method, <<>>, <<>>, <<>>, namespace, name)

_get_core_resource(kind, name, namespace) ==
  LET method == Get(core_method_map, Lower(kind), "None") IN
  IF method = "None" THEN NoCall
  ELSE Call("get_resource", "core_v1", method, <<>>, <<>>, <<>>, namespace, name)

get_resource(api_version, kind, name, namespace) ==
  IF Contains(api_version, "/")
  THEN Call("get_resource", "custom", "get_namespaced_custom_object",
            RSplit(api_version, "/")[1], RSplit(api_version, "/")[2],
            _kind_to_plural(kind), namespace, name)
  ELSE _get_core_resource(kind, name, namespace)

\* mutant: the kind is compared as written, not lowercased
get_apps_resource_exact(kind, name, namespace) ==
  IF kind = S("Deployment")
  THEN Call("get_apps_resource", "apps_v1", "read_namespaced_deployment", <<>>, <<>>, <<>>, namespace, name)
  ELSE IF kind = S("StatefulSet")
  THEN Call("get_apps_resource", "apps_v1", "read_namespaced_stateful_set", <<>>, <<>>, <<>>, namespace, name)
  ELSE IF kind = S("DaemonSet")
  THEN Call("get_apps_resource", "apps_v1", "read_namespaced_daemon_set", <<>>, <<>>, <<>>, namespace, name)
  ELSE IF kind = S("ReplicaSet")
  THEN Call("get_apps_resource", "apps_v1", "read_namespaced_replica_set", <<>>, <<>>, <<>>, namespace, name)
  ELSE NoCall

get_apps_resource(kind, name, namespace) ==
  LET kind_lower == Lower(kind) IN
  IF kind_lower = S("deployment")
  THEN Call("get_apps_resource", "apps_v1", "read_namespaced_deployment", <<>>, <<>>, <<>>, namespace, name)
  ELSE IF kind_lower = S("statefulset")
  THEN Call("get_apps_resource", "apps_v1", "read_namespaced_stateful_set", <<>>, <<>>, <<>>, namespace, name)
  ELSE IF kind_lower = S("daemonset")
  THEN Call("get_apps_resource", "apps_v1", "read_namespaced_daemon_set", <<>>, <<>>, <<>>, namespace, name)
  ELSE IF kind_lower = S("replicaset")
  THEN Call("get_apps_resource", "apps_v1", "read_namespaced_replica_set", <<>>, <<>>, <<>>, namespace, name)
  ELSE NoCall

_get_cluster_typed_resource(api_version, kind, name) ==
  IF api_version = S("rbac.authorization.k8s.io/v1")
  THEN IF kind = S("ClusterRole")
       THEN Call("get_cluster_resource", "rbac_v1", "read_cluster_role", <<>>, <<>>, <<>>, <<>>, name)
       ELSE IF kind = S("ClusterRoleBinding")
       THEN Call("get_cluster_resource", "rbac_v1", "read_cluster_role_binding", <<>>, <<>>, <<>>, <<>>, name)
       ELSE NoCall
  ELSE IF api_version = S("networking.k8s.io/v1")
  THEN IF kind = S("IngressClass")
       THEN Call("get_cluster_resource", "networking_v1", "read_ingress_class", <<>>, <<>>, <<>>, <<>>, name)
       ELSE NoCall
  ELSE IF api_version = S("apiextensions.k8s.io/v1")
  THEN IF kind = S("CustomResourceDefinition")
       THEN Call("get_cluster_resource", "apiextensions_v1", "read_custom_resource_definition", <<>>, <<>>, <<>>, <<>>, name)
       ELSE NoCall
  ELSE NoCall

core_cluster_method_map ==
  { <<S("namespace"), "read_namespace">>,
    <<S("persistentvolume"), "read_persistent_volume">>,
    <<S("node"), "read_node">> }

\* mutant: a core kind without a typed fetcher is read through the dynamic API
_get_core_cluster_resource_dynamic(kind, name) ==
  LET method == Get(core_cluster_method_map, Lower(kind), "None") IN
  IF method = "None"
  THEN Call("get_cluster_resource", "custom", "get_cluster_custom_object",
            <<>>, S("v1"), _kind_to_plural(kind), <<>>, name)
  ELSE Call("get_cluster_resource", "core_v1", method, <<>>, <<>>, <<>>, <<>>, name)

_get_core_cluster_resource(kind, name) ==
  LET method == Get(core_cluster_method_map, Lower(kind), "None") IN
  IF method = "None" THEN NoCall
  ELSE Call("get_cluster_resource", "core_v1", method, <<>>, <<>>, <<>>, <<>>, name)

get_cluster_resource(api_version, kind, name) ==
  IF Contains(api_version, "/")
  THEN LET typed == _get_cluster_typed_resource(api_version, kind, name) IN
       IF typed # NoCall THEN typed
       ELSE Call("get_cluster_resource", "custom", "get_cluster_custom_object",
                 RSplit(api_version, "/")[1], RSplit(api_version, "/")[2],
                 _kind_to_plural(kind), <<>>, name)
  ELSE _get_core_cluster_resource(kind, name)

(***************************************************************************)
(* The outcome of a client call: the object read, an ApiException with an  *)
(* HTTP status, or an error of the transport that is no ApiException.      *)
(***************************************************************************)
NotFoundStatus == 404

ErrorStatuses == {401, 403, 500}

OkOutcome(obj) == [type |-> "ok", status |-> 200, obj |-> obj]

ApiException(status) == [type |-> "ApiException", status |-> status, obj |-> {}]

TransportError == [type |-> "TransportError", status |-> 0, obj |-> {}]

\* "except ApiException as e: if e.status == 404: return None; raise"
get_resource_except(outcome) ==
  IF outcome.type = "ApiException" /\ outcome.status = NotFoundStatus THEN "None" ELSE "raise"

get_apps_resource_except(outcome) ==
  IF outcome.type = "ApiException" /\ outcome.status = NotFoundStatus THEN "None" ELSE "raise"

\* mutant: a forbidden read is taken for an absent object
get_cluster_resource_except_403(outcome) ==
  IF outcome.type = "ApiException" /\ outcome.status \in {403, 404} THEN "None" ELSE "raise"

get_cluster_resource_except(outcome) ==
  IF outcome.type = "ApiException" /\ outcome.status = NotFoundStatus THEN "None" ELSE "raise"

\* what the Gateway operation that made the call does with a failed call
GatewayExcept(op, outcome) ==
  CASE op = "get_resource" -> get_resource_except(outcome)
    [] op = "get_apps_resource" -> get_apps_resource_except(outcome)
    [] op = "get_cluster_resource" -> get_cluster_resource_except(outcome)

(***************************************************************************)
(* core/drift_engine.py: the Field Normalizer                              *)
(***************************************************************************)
IGNORED_FIELDS ==
  { S("metadata.resourceVersion"), S("metadata.uid"), S("metadata.creationTimestamp"),
    S("metadata.generation"), S("metadata.managedFields"), S("metadata.selfLink"),
    S("metadata.annotations.kubectl.kubernetes.io/last-applied-configuration"),
    S("status") }

\* mutant: the key alone is looked up, not its path from the root
full_key_no_prefix(prefix, key) == key

\* full_key = f"{prefix}.{key}" if prefix else key
full_key(prefix, key) == IF Truthy(prefix) THEN prefix \o S(".") \o key ELSE key

\* mutant: "if value:" in place of "if inner:", the emptiness of the input
\* mapping decides whether the key is kept
RECURSIVE _strip_server_fields_if_value(_, _)
_strip_server_fields_if_value(obj, prefix) ==
  LET kept == { p \in obj :
                  /\ full_key(prefix, p[1]) \notin IGNORED_FIELDS
                  /\ p[2].t = "map" => p[2].m # {} }
  IN { <<p[1], IF p[2].t = "map"
               THEN Dict(_strip_server_fields_if_value(p[2].m, full_key(prefix, p[1])))
               ELSE p[2]>> : p \in kept }

\* mutant: "if inner:" left out, a mapping is kept when it is empty
RECURSIVE _strip_server_fields_keep_empty(_, _)
_strip_server_fields_keep_empty(obj, prefix) ==
  LET kept == { p \in obj : full_key(prefix, p[1]) \notin IGNORED_FIELDS }
  IN { <<p[1], IF p[2].t = "map"
               THEN Dict(_strip_server_fields_keep_empty(p[2].m, full_key(prefix, p[1])))
               ELSE p[2]>> : p \in kept }

RECURSIVE _strip_server_fields(_, _)
_strip_server_fields(obj, prefix) ==
  LET kept == { p \in obj :
                  /\ full_key(prefix, p[1]) \notin IGNORED_FIELDS
                  /\ p[2].t = "map" => _strip_server_fields(p[2].m, full_key(prefix, p[1])) # {} }
  IN { <<p[1], IF p[2].t = "map"
               THEN Dict(_strip_server_fields(p[2].m, full_key(prefix, p[1])))
               ELSE p[2]>> : p \in kept }

(***************************************************************************)
(* core/drift_engine.py: the Diff Engine, DeepDiff(stored, live,           *)
(* ignore_order=True, verbose_level=2).  The result is the set of changes, *)
(* each under the category DeepDiff reports it in.  With ignore_order the  *)
(* elements of a sequence are compared as a set of order-insensitive       *)
(* values.                                                                 *)
(***************************************************************************)
Change(cat, path, old, new) == [cat |-> cat, path |-> path, old |-> old, new |-> new]

\* a node with every sequence in it replaced by the set of its elements
RECURSIVE Unordered(_)
Unordered(node) ==
  CASE node.t = "list" ->
         [t |-> "list", ty |-> "list", str |-> <<>>, n |-> 0, l |-> <<>>,
          m |-> { <<<<>>, Unordered(node.l[i])>> : i \in 1..Len(node.l) }]
    [] node.t = "map" -> Dict({ <<p[1], Unordered(p[2])>> : p \in node.m })
    [] OTHER -> node

RECURSIVE DiffNode(_, _, _)
DiffNode(a, b, path) ==
  IF a.t # b.t \/ a.ty # b.ty THEN { Change("type_changes", path, a, b) }
  ELSE IF a.t = "map" THEN
    { Change("dictionary_item_removed", path \o <<k>>, Get(a.m, k, Absent), Absent) :
        k \in Keys(a.m) \ Keys(b.m) }
    \cup { Change("dictionary_item_added", path \o <<k>>, Absent, Get(b.m, k, Absent)) :
        k \in Keys(b.m) \ Keys(a.m) }
    \cup UNION { DiffNode(Get(a.m, k, Absent), Get(b.m, k, Absent), path \o <<k>>) :
        k \in Keys(a.m) \cap Keys(b.m) }
  ELSE IF a.t = "list" THEN
    { Change("iterable_item_removed", path, p[2], Absent) : p \in Unordered(a).m \ Unordered(b).m }
    \cup { Change("iterable_item_added", path, Absent, p[2]) : p \in Unordered(b).m \ Unordered(a).m }
  ELSE IF a = b THEN {}
  ELSE { Change("values_changed", path, a, b) }

\* mutant: ignore_order left out, sequences are compared position by position
RECURSIVE DiffNodeOrdered(_, _, _)
DiffNodeOrdered(a, b, path) ==
  IF a.t # b.t \/ a.ty # b.ty THEN { Change("type_changes", path, a, b) }
  ELSE IF a.t = "map" THEN
    { Change("dictionary_item_removed", path \o <<k>>, Get(a.m, k, Absent), Absent) :
        k \in Keys(a.m) \ Keys(b.m) }
    \cup { Change("dictionary_item_added", path \o <<k>>, Absent, Get(b.m, k, Absent)) :
        k \in Keys(b.m) \ Keys(a.m) }
    \cup UNION { DiffNodeOrdered(Get(a.m, k, Absent), Get(b.m, k, Absent), path \o <<k>>) :
        k \in Keys(a.m) \cap Keys(b.m) }
  ELSE IF a.t = "list" THEN
    { Change("iterable_item_removed", path \o <<i>>, a.l[i], Absent) :
        i \in (Len(b.l) + 1)..Len(a.l) }
    \cup { Change("iterable_item_added", path \o <<i>>, Absent, b.l[i]) :
        i \in (Len(a.l) + 1)..Len(b.l) }
    \cup UNION { DiffNodeOrdered(a.l[i], b.l[i], path \o <<i>>) :
        i \in 1..(IF Len(a.l) < Len(b.l) THEN Len(a.l) ELSE Len(b.l)) }
  ELSE IF a = b THEN {}
  ELSE { Change("values_changed", path, a, b) }

DeepDiff_ordered(t1, t2) == DiffNodeOrdered(Dict(t1), Dict(t2), <<>>)

DeepDiff(t1, t2) == DiffNode(Dict(t1), Dict(t2), <<>>)

(***************************************************************************)
(* core/drift_engine.py: _format_diff.  A detail string is modelled by the *)
(* parts it is formatted from.                                             *)
(***************************************************************************)
Detail(text, path, old, new) == [text |-> text, path |-> path, old |-> old, new |-> new]

\* the elements of a set in the order the code iterates them
RECURSIVE SetToSeq(_)
SetToSeq(set) ==
  IF set = {} THEN <<>>
  ELSE LET x == CHOOSE y \in set : TRUE IN <<x>> \o SetToSeq(set \ {x})

OfCategory(diff, cat) == SetToSeq({ c \in diff : c.cat = cat })

FormatAll(changes, text, withValues) ==
  [i \in 1..Len(changes) |->
     IF withValues THEN Detail(text, changes[i].path, changes[i].old, changes[i].new)
     ELSE Detail(text, changes[i].path, Absent, Absent)]

_format_diff(diff) ==
  LET details ==
        FormatAll(OfCategory(diff, "values_changed"), "Changed", TRUE)
        \o FormatAll(OfCategory(diff, "dictionary_item_added"), "Added", FALSE)
        \o FormatAll(OfCategory(diff, "dictionary_item_removed"), "Removed", FALSE)
        \o FormatAll(OfCategory(diff, "iterable_item_added"), "List item added", FALSE)
        \o FormatAll(OfCategory(diff, "iterable_item_removed"), "List item removed", FALSE)
        \o FormatAll(OfCategory(diff, "type_changes"), "Type changed", TRUE)
  IN IF details # <<>> THEN details
     ELSE << Detail("Differences detected (see raw diff)", <<>>, Absent, Absent) >>

(***************************************************************************)
(* core/drift_engine.py: _fetch_live_resource and detect_drift             *)
(***************************************************************************)
\* mutant: the release's namespace stands in for an undeclared one
fetch_scope_namespace_fallback(res, namespace) == Or(res.namespace, namespace)

\* the namespace _fetch_live_resource hands to the Scope Classifier (line 54)
fetch_scope_namespace(res, namespace) == res.namespace

\* the namespace detect_drift hands to the Scope Classifier (line 76)
diff_scope_namespace(res, release_namespace) == res.namespace

\* an invocation of a Gateway operation: the operation, the namespace it is
\* given (none for get_cluster_resource) and the client call it makes
Invoke(op, namespace, call) == [op |-> op, namespace |-> namespace, call |-> call]

_fetch_live_resource(res, namespace) ==
  IF is_cluster_scoped(res.kind, fetch_scope_namespace(res, namespace))
  THEN Invoke("get_cluster_resource", <<>>,
              get_cluster_resource(res.api_version, res.kind, res.name))
  ELSE LET ns == Or(res.namespace, namespace) IN
       IF res.api_version \in { S("apps/v1") }
       THEN Invoke("get_apps_resource", ns, get_apps_resource(res.kind, res.name, ns))
       ELSE Invoke("get_resource", ns, get_resource(res.api_version, res.kind, res.name, ns))

\* the locals of one iteration: the namespace handed to the Scope Classifier and
\* its answer, in detect_drift (line 76) and in _fetch_live_resource (line 54)
Scope(res, release_namespace) ==
  [diff_arg |-> diff_scope_namespace(res, release_namespace),
   cluster_scoped |-> is_cluster_scoped(res.kind, diff_scope_namespace(res, release_namespace)),
   fetch_arg |-> fetch_scope_namespace(res, release_namespace),
   fetch_cluster_scoped |-> is_cluster_scoped(res.kind, fetch_scope_namespace(res, release_namespace))]

NoScope == [diff_arg |-> <<>>, cluster_scoped |-> FALSE, fetch_arg |-> <<>>, fetch_cluster_scoped |-> FALSE]

\* mutant: only the kind is tested
skipped_kind_only(res) == ~Truthy(res.kind)

\* "if not res.kind or not res.name: continue"
skipped(res) == ~Truthy(res.kind) \/ ~Truthy(res.name)

\* mutant: the namespace is recorded for cluster-scoped resources too
diff_namespace_always(res, release_namespace) == Or(res.namespace, release_namespace)

diff_namespace(res, release_namespace) ==
  IF is_cluster_scoped(res.kind, diff_scope_namespace(res, release_namespace))
  THEN <<>>
  ELSE Or(res.namespace, release_namespace)

ResourceDiff(res, namespace, status, details) ==
  [api_version |-> res.api_version, kind |-> res.kind, name |-> res.name,
   namespace |-> namespace, status |-> status, details |-> details]

\* the diff appended when the live object is None
missing_live_diff(res, namespace) ==
  ResourceDiff(res, namespace, "MISSING_LIVE",
               << Detail("Resource not found in cluster", <<>>, Absent, Absent) >>)

\* mutant: the details are formatted on both branches
compared_diff_always_details(res, namespace, liveobj) ==
  LET diff == DeepDiff(_strip_server_fields(res.raw, <<>>), _strip_server_fields(liveobj, <<>>))
  IN ResourceDiff(res, namespace, IF diff # {} THEN "MODIFIED" ELSE "UNCHANGED", _format_diff(diff))

\* the diff appended when a live object was found
compared_diff(res, namespace, liveobj) ==
  LET stored_clean == _strip_server_fields(res.raw, <<>>)
      live_clean == _strip_server_fields(liveobj, <<>>)
      diff == DeepDiff(stored_clean, live_clean)
  IN IF diff # {}
     THEN ResourceDiff(res, namespace, "MODIFIED", _format_diff(diff))
     ELSE ResourceDiff(res, namespace, "UNCHANGED", <<>>)

(***************************************************************************)
(* Inputs: documents of stored manifests, releases, and the live objects   *)
(* the cluster may hold for a stored document.                             *)
(***************************************************************************)
MaxRes == 2

MaxList == 3

MaxNest == 2

\* a key-value pair of a document, left out when the string is empty
Field(key, s) == IF Truthy(s) THEN { <<key, Str(s)>> } ELSE {}

MkDoc(api_version, kind, name, namespace, body) ==
  LET metadata == Field(S("name"), name) \cup Field(S("namespace"), namespace) IN
  Dict(Field(S("apiVersion"), api_version) \cup Field(S("kind"), kind)
       \cup (IF metadata # {} THEN { <<S("metadata"), Dict(metadata)>> } ELSE {})
       \cup body)

Replicas(i) == { <<S("spec"), Dict({ <<S("replicas"), Num(i)>> })>> }

Data(s) == { <<S("data"), Dict({ <<S("k"), Str(s)>> })>> }

Items(seq) == { <<S("a"), List(seq)>> }

\* the documents of the manifests of Spec: one per route of the Gateway, a
\* document without a name, one that is no mapping and one the loader rejects
LoopDocs ==
  { MkDoc(S("apps/v1"), S("Deployment"), S("web"), <<>>, Replicas(3)),
    MkDoc(S("v1"), S("ConfigMap"), S("cfg"), S("prod"), Data(S("v"))),
    MkDoc(S("v1"), S("ConfigMap"), <<>>, <<>>, {}),
    MkDoc(S("rbac.authorization.k8s.io/v1"), S("ClusterRole"), S("web"), <<>>, {}),
    MkDoc(S("example.com/v1"), S("Widget"), S("web"), <<>>, Items(<<Num(1), Num(2), Num(3)>>)),
    MkDoc(S("v1"), S("ReplicationController"), S("web"), <<>>, {}),
    Null,
    Malformed }

RECURSIVE SeqsUpTo(_, _)
SeqsUpTo(set, n) ==
  IF n = 0 THEN { <<>> }
  ELSE SeqsUpTo(set, n - 1)
       \cup { Append(s, x) : s \in { t \in SeqsUpTo(set, n - 1) : Len(t) = n - 1 }, x \in set }

HelmRelease(name, namespace, manifest) ==
  [name |-> name, namespace |-> namespace, manifest |-> manifest]

\* a live object as the cluster returns it: server-managed fields filled in
ServerSide(obj) ==
  LET md == Get(obj, S("metadata"), Dict({})).m IN
  Put(Put(obj, S("metadata"),
          Dict(Put(Put(md, S("uid"), Str(S("a"))), S("resourceVersion"), Str(S("b"))))),
      S("status"), Dict({ <<S("replicas"), Num(1)>> }))

Bijections(n) == { f \in [1..n -> 1..n] : \A i, j \in 1..n : i # j => f[i] # f[j] }

\* the sequences that take their i-th element from the i-th set
RECURSIVE Choices(_)
Choices(sets) ==
  IF sets = <<>> THEN { <<>> }
  ELSE { <<x>> \o rest : x \in Head(sets), rest \in Choices(Tail(sets)) }

\* the trees that hold the elements of every sequence of node in some order
RECURSIVE Reordered(_)
Reordered(node) ==
  CASE node.t = "list" ->
         UNION { { List(c) : c \in Choices([i \in 1..Len(node.l) |-> Reordered(node.l[f[i]])]) } :
                 f \in Bijections(Len(node.l)) }
    [] node.t = "map" ->
         LET ks == SetToSeq(Keys(node.m)) IN
         { Dict({ <<ks[i], c[i]>> : i \in 1..Len(ks) }) :
             c \in Choices([i \in 1..Len(ks) |-> Reordered(Get(node.m, ks[i], Absent))]) }
    [] OTHER -> { node }

\* the document with the first element of a sequence repeated at its end
Repeated(raw) ==
  { Put(raw, p[1], List(Append(p[2].l, p[2].l[1]))) :
      p \in { q \in raw : q[2].t = "list" /\ q[2].l # <<>> } }

\* the live objects the cluster may return for a stored document: the document
\* itself with its sequences in any order, with or without server-managed
\* fields, with an element of a sequence repeated, and the document with a
\* field changed, removed or of another type
LiveVariants(raw) ==
  { n.m : n \in Reordered(Dict(raw)) }
  \cup { ServerSide(n.m) : n \in Reordered(Dict(raw)) }
  \cup Repeated(raw)
  \cup
  {
    Put(raw, S("spec"), Dict({ <<S("replicas"), Num(5)>> })),
    Put(raw, S("data"), Dict({ <<S("k"), Str(S("v2"))>> })),
    { p \in raw : p[1] \notin { S("spec"), S("data") } },
    Put(raw, S("a"), Str(S("v2"))),
    Put(raw, S("a"), List(<<Num(1), Num(5)>>)) }

(***************************************************************************)
(* detect_drift as a state machine.  pc is the position in detect_drift:   *)
(* "start" before parse_manifest, "loop" at the head of the for loop,      *)
(* "await" inside the one client call of a Gateway operation, "returned"   *)
(* and "raised" after it ended.                                            *)
(***************************************************************************)
NoLive == [found |-> FALSE, obj |-> {}]

NoReturn == [kind |-> "none", release_name |-> <<>>, namespace |-> <<>>, diffs |-> <<>>]

DriftResult(release_name, namespace, ds) ==
  [kind |-> "DriftResult", release_name |-> release_name, namespace |-> namespace, diffs |-> ds]

\* DiffStatus: the value of each member
DiffStatus_value(status) ==
  CASE status = "UNCHANGED" -> "unchanged"
    [] status = "MODIFIED" -> "modified"
    [] status = "MISSING_LIVE" -> "missing_live"
    [] status = "EXTRA_LIVE" -> "extra_live"

\* ResourceDiff.has_drift
ResourceDiff_has_drift(d) == d.status # "UNCHANGED"

\* DriftResult.has_drift: any(d.has_drift for d in self.diffs)
RECURSIVE DriftResult_has_drift(_)
DriftResult_has_drift(ds) ==
  IF ds = <<>> THEN FALSE
  ELSE IF ResourceDiff_has_drift(Head(ds)) THEN TRUE
  ELSE DriftResult_has_drift(Tail(ds))

\* mutant: the count of a key is set, not incremented
counts_put_one(counts, key) ==
  [k \in DOMAIN counts \cup {key} |-> IF k = key THEN 1 ELSE counts[k]]

\* counts[key] = counts.get(key, 0) + 1
counts_put(counts, key) ==
  [k \in DOMAIN counts \cup {key} |->
     IF k = key THEN (IF key \in DOMAIN counts THEN counts[key] ELSE 0) + 1 ELSE counts[k]]

\* the loop of DriftResult.summary
RECURSIVE summary_loop(_, _)
summary_loop(ds, counts) ==
  IF ds = <<>> THEN counts
  ELSE summary_loop(Tail(ds), counts_put(counts, DiffStatus_value(Head(ds).status)))

\* DriftResult.summary: a dict from status value to count
summary(ds) == summary_loop(ds, << >>)

\* detect_drift ended with an exception: nothing is returned
Raised == [kind |-> "raised", release_name |-> <<>>, namespace |-> <<>>, diffs |-> <<>>]

\* detect_owner has returned nothing
NoOwner == [controller |-> "none", confidence |-> "none", detail |-> <<>>]

\* a file: whether it exists, its content, its modification time
File(exists, content, mtime) == [exists |-> exists, content |-> content, mtime |-> mtime]

NoFile == File(FALSE, Null, 0)

\* no process runs _load_index
IndexIdle ==
  /\ index = NoFile
  /\ sidecar = NoFile
  /\ clock = 0
  /\ _index_cache = << >>
  /\ loader = << >>

\* check_updates is not called
UpdateIdle ==
  /\ releases = <<>>
  /\ repos = <<>>
  /\ upc = 0
  /\ results = <<>>

\* get_release is not called
StoreIdle ==
  /\ secrets = <<>>
  /\ query = [name |-> <<>>, namespace |-> <<>>]
  /\ spc = [at |-> "idle", i |-> 0]
  /\ objects = <<>>
  /\ best_version = -1
  /\ best_obj = 0
  /\ got = [returned |-> FALSE, value |-> [none |-> TRUE, name |-> <<>>, namespace |-> <<>>, version |-> 0]]

InitWith(stored) ==
  /\ IndexIdle
  /\ UpdateIdle
  /\ StoreIdle
  /\ release \in stored
  /\ pc = "start"
  /\ resources = <<>>
  /\ idx = 0
  /\ scope = NoScope
  /\ diffs = <<>>
  /\ fetches = <<>>
  /\ requests = <<>>
  /\ outcomes = <<>>
  /\ live = NoLive
  /\ ret = NoReturn
  /\ opc = "idle"
  /\ checks = <<>>
  /\ lookups = <<>>
  /\ answers = <<>>
  /\ owner = NoOwner

Init ==
  InitWith({ HelmRelease(S("web"), S("default"), m) : m \in SeqsUpTo(LoopDocs, MaxRes) })

(***************************************************************************)
(* SpecRoute: detect_drift on releases of one document, over every         *)
(* apiVersion and kind of RouteApiVersions and RouteKinds, declared in a   *)
(* namespace or not.                                                       *)
(***************************************************************************)
RouteApiVersions ==
  { <<>>, S("v1"), S("apps/v1"), S("rbac.authorization.k8s.io/v1"),
    S("networking.k8s.io/v1"), S("apiextensions.k8s.io/v1"), S("storage.k8s.io/v1"),
    S("rbac.authorization.k8s.io/v1beta1"), S("example.com/v1"), S("example.com/a/v1") }

RouteKinds ==
  CLUSTER_SCOPED_KINDS
  \cup { S("Service"), S("ConfigMap"), S("Secret"), S("ServiceAccount"),
         S("PersistentVolumeClaim"), S("Pod"), S("Endpoints"),
         S("Deployment"), S("StatefulSet"), S("DaemonSet"), S("ReplicaSet"),
         S("ControllerRevision"), S("ReplicationController"),
         S("Ingress"), S("NetworkPolicy"), S("Job"), S("Gateway"), S("Widget"),
         S("ClusterWidget"), S("ClusterIssuer"), S("Cluster"),
         S("pod"), S("deployment"), S("clusterrole"), S("namespace") }

RouteNamespaces == { <<>>, S("default") }

InitRoute ==
  InitWith({ HelmRelease(S("web"), S("prod"), << MkDoc(av, k, S("web"), ns, {}) >>) :
               av \in RouteApiVersions, k \in RouteKinds, ns \in RouteNamespaces }
           \cup { HelmRelease(S("web"), S("prod"), << d >>) :
                    d \in { Malformed, MkDoc(S("v1"), S("ConfigMap"), <<>>, <<>>, {}) } })

(***************************************************************************)
(* SpecParse: detect_drift on releases whose manifest holds up to MaxRes   *)
(* documents of ParseDocs: mappings with and without apiVersion, kind and  *)
(* metadata, documents that are no mapping or empty, a document whose      *)
(* metadata is a string, and one the loader rejects.                       *)
(***************************************************************************)
ParseDocs ==
  { MkDoc(S("v1"), S("ConfigMap"), S("cfg"), S("prod"), Data(S("v"))),
    Dict({ <<S("apiVersion"), Str(S("v1"))>>, <<S("kind"), Str(S("ConfigMap"))>> }),
    Dict({ <<S("apiVersion"), Str(S("v1"))>>, <<S("kind"), Str(S("ConfigMap"))>>,
           <<S("metadata"), Null>> }),
    Dict({ <<S("metadata"), Dict({ <<S("name"), Str(S("web"))>> })>> }),
    Dict({ <<S("kind"), Str(S("Pod"))>>, <<S("metadata"), Dict({ <<S("name"), Str(S("web"))>> })>> }),
    Dict({ <<S("kind"), Str(S("ReplicationController"))>>,
           <<S("metadata"), Dict({ <<S("name"), Str(S("web"))>> })>> }),
    Dict({ <<S("data"), Dict({ <<S("k"), Str(S("v"))>> })>> }),
    Dict({ <<S("kind"), Str(S("ConfigMap"))>>, <<S("metadata"), Str(S("v"))>> }),
    Dict({}),
    Null,
    Str(S("v")),
    List(<< Num(1) >>),
    List(<<>>),
    Malformed }

InitParse ==
  InitWith({ HelmRelease(S("web"), S("default"), m) : m \in SeqsUpTo(ParseDocs, MaxRes) })

(***************************************************************************)
(* SpecStrip: detect_drift on releases of one document built from every    *)
(* combination of the metadata, spec, status and sequence values below:    *)
(* server-managed keys at their own and at other paths, mappings that are  *)
(* empty or become empty, and mappings inside a sequence.                  *)
(***************************************************************************)
LastApplied == S("kubectl.kubernetes.io/last-applied-configuration")

StripMetadata ==
  { {},
    { <<S("metadata"), Dict({ <<S("name"), Str(S("cfg"))>> })>> },
    { <<S("metadata"), Dict({ <<S("name"), Str(S("cfg"))>>, <<S("uid"), Str(S("a"))>>,
                              <<S("generation"), Num(1)>> })>> },
    { <<S("metadata"), Dict({ <<S("uid"), Str(S("a"))>> })>> },
    { <<S("metadata"), Dict({ <<S("name"), Str(S("cfg"))>>,
                              <<S("annotations"), Dict({ <<LastApplied, Str(S("v"))>> })>> })>> },
    { <<S("metadata"), Dict({ <<S("annotations"), Dict({ <<LastApplied, Str(S("v"))>> })>> })>> },
    { <<S("metadata"), Dict({ <<S("name"), Str(S("cfg"))>>,
                              <<S("annotations"), Dict({ <<LastApplied, Str(S("v"))>>,
                                                         <<S("other"), Str(S("v"))>> })>> })>> },
    { <<S("metadata"), Dict({ <<S("name"), Str(S("cfg"))>>, <<S("labels"), Dict({})>> })>> } }

StripSpec ==
  { {},
    { <<S("spec"), Dict({})>> },
    { <<S("spec"), Dict({ <<S("replicas"), Num(3)>> })>> },
    { <<S("spec"), Dict({ <<S("status"), Str(S("v"))>>, <<S("uid"), Str(S("a"))>> })>> },
    { <<S("spec"), Dict({ <<S("status"), Dict({})>> })>> },
    { <<S("spec"), Dict({ <<S("template"), Dict({})>> })>> },
    { <<S("spec"), Dict({ <<S("template"),
          Dict({ <<S("metadata"), Dict({ <<S("uid"), Str(S("a"))>>,
                                         <<S("generation"), Num(1)>> })>> })>> })>> } }

StripStatus ==
  { {},
    { <<S("status"), Str(S("v"))>> },
    { <<S("status"), Dict({ <<S("replicas"), Num(1)>> })>> },
    { <<S("status"), Dict({})>> } }

StripItems ==
  { {},
    { <<S("a"), List(<< Dict({ <<S("status"), Str(S("v"))>> }), Dict({}) >>)>> } }

StripDocs ==
  { Dict({ <<S("apiVersion"), Str(S("v1"))>>, <<S("kind"), Str(S("ConfigMap"))>> }
         \cup md \cup sp \cup st \cup it) :
      md \in StripMetadata, sp \in StripSpec, st \in StripStatus, it \in StripItems }

InitStrip ==
  InitWith({ HelmRelease(S("web"), S("default"), << d >>) :
               d \in StripDocs \cup { Malformed,
                                      MkDoc(S("v1"), S("ReplicationController"), S("web"), <<>>, {}) } })

(***************************************************************************)
(* SpecDiff: detect_drift on releases of one document whose field "a"      *)
(* holds a tree: a scalar, a sequence of up to MaxList scalars, a sequence *)
(* of up to MaxNest scalars, sequences and mappings, or a mapping.         *)
(***************************************************************************)
Leaves == { Num(1), Num(2), Num(3), Str(S("v")) }

FlatLists == { List(s) : s \in SeqsUpTo(Leaves, MaxList) }

Pairs == { s \in SeqsUpTo({ Num(1), Num(2) }, 2) : Len(s) = 2 }

Inner ==
  { Num(1), Num(2) }
  \cup { List(s) : s \in Pairs }
  \cup { Dict({ <<S("k"), List(<<Num(1), Num(2)>>)>> }), Dict({ <<S("k"), List(<<Num(2), Num(1)>>)>> }) }

NestedLists == { List(s) : s \in SeqsUpTo(Inner, MaxNest) }

Trees ==
  Leaves \cup FlatLists \cup NestedLists
  \cup { Dict({ <<S("k"), n>> }) : n \in { List(s) : s \in Pairs } \cup { Num(1) } }

InitDiff ==
  InitWith({ HelmRelease(S("web"), S("default"),
                         << MkDoc(S("example.com/v1"), S("Widget"), S("web"), <<>>, { <<S("a"), t>> }) >>) :
               t \in Trees }
           \cup { HelmRelease(S("web"), S("default"), << d >>) :
                    d \in { Malformed, MkDoc(S("v1"), S("ConfigMap"), <<>>, <<>>, {}),
                            MkDoc(S("v1"), S("ReplicationController"), S("web"), <<>>, {}) } })

\* resources = parse_manifest(release.manifest)
Parse ==
  /\ pc = "start"
  /\ ~parse_manifest(release.manifest).raised
  /\ resources' = parse_manifest(release.manifest).resources
  /\ idx' = 1
  /\ pc' = "loop"
  /\ UNCHANGED <<release, scope, diffs, fetches, requests, outcomes, live, ret>>
  /\ UNCHANGED outsideDrift

\* parse_manifest raises: detect_drift ends with the error
ParseRaises ==
  /\ pc = "start"
  /\ parse_manifest(release.manifest).raised
  /\ pc' = "raised"
  /\ ret' = Raised
  /\ UNCHANGED <<release, resources, idx, scope, diffs, fetches, requests, outcomes, live>>
  /\ UNCHANGED outsideDrift

\* a resource without kind or name: continue
Skip ==
  /\ pc = "loop"
  /\ idx <= Len(resources)
  /\ skipped(resources[idx])
  /\ idx' = idx + 1
  /\ UNCHANGED <<release, pc, resources, scope, diffs, fetches, requests, outcomes, live, ret>>
  /\ UNCHANGED outsideDrift

\* the Gateway operation returns None without a client call
FetchNone ==
  /\ pc = "loop"
  /\ idx <= Len(resources)
  /\ ~skipped(resources[idx])
  /\ _fetch_live_resource(resources[idx], release.namespace).call = NoCall
  /\ scope' = Scope(resources[idx], release.namespace)
  /\ live' = NoLive
  /\ diffs' = Append(diffs, missing_live_diff(resources[idx],
                                              diff_namespace(resources[idx], release.namespace)))
  /\ fetches' = Append(fetches, [idx |-> idx,
                                 op |-> _fetch_live_resource(resources[idx], release.namespace).op,
                                 namespace |-> _fetch_live_resource(resources[idx], release.namespace).namespace])
  /\ idx' = idx + 1
  /\ UNCHANGED <<release, pc, resources, requests, outcomes, ret>>
  /\ UNCHANGED outsideDrift

\* the Gateway operation makes its client call: one request to the cluster
FetchCall ==
  /\ pc = "loop"
  /\ idx <= Len(resources)
  /\ ~skipped(resources[idx])
  /\ _fetch_live_resource(resources[idx], release.namespace).call # NoCall
  /\ scope' = Scope(resources[idx], release.namespace)
  /\ requests' = Append(requests, [call |-> _fetch_live_resource(resources[idx], release.namespace).call,
                                   idx |-> idx])
  /\ fetches' = Append(fetches, [idx |-> idx,
                                 op |-> _fetch_live_resource(resources[idx], release.namespace).op,
                                 namespace |-> _fetch_live_resource(resources[idx], release.namespace).namespace])
  /\ pc' = "await"
  /\ UNCHANGED <<release, resources, idx, diffs, outcomes, live, ret>>
  /\ UNCHANGED outsideDrift

\* the call returns the object: strip both sides, compare, append the diff
RespondObject ==
  /\ pc = "await"
  /\ \E obj \in LiveVariants(resources[idx].raw) :
       /\ live' = [found |-> TRUE, obj |-> obj]
       /\ outcomes' = Append(outcomes, OkOutcome(obj))
       /\ diffs' = Append(diffs, compared_diff(resources[idx],
                                               diff_namespace(resources[idx], release.namespace), obj))
  /\ idx' = idx + 1
  /\ pc' = "loop"
  /\ UNCHANGED <<release, resources, scope, fetches, requests, ret>>
  /\ UNCHANGED outsideDrift

\* mutant: break instead of continue after a missing resource
RespondNone_break ==
  /\ pc = "await"
  /\ \E outcome \in { ApiException(s) : s \in ErrorStatuses \cup {NotFoundStatus} } \cup { TransportError } :
       /\ GatewayExcept(requests[Len(requests)].call.op, outcome) = "None"
       /\ outcomes' = Append(outcomes, outcome)
  /\ live' = NoLive
  /\ diffs' = Append(diffs, missing_live_diff(resources[idx],
                                              diff_namespace(resources[idx], release.namespace)))
  /\ idx' = Len(resources) + 1
  /\ pc' = "loop"
  /\ UNCHANGED <<release, resources, scope, fetches, requests, ret>>
  /\ UNCHANGED outsideDrift

\* the call fails and the Gateway operation turns the failure into None
RespondNone ==
  /\ pc = "await"
  /\ \E outcome \in { ApiException(s) : s \in ErrorStatuses \cup {NotFoundStatus} } \cup { TransportError } :
       /\ GatewayExcept(requests[Len(requests)].call.op, outcome) = "None"
       /\ outcomes' = Append(outcomes, outcome)
  /\ live' = NoLive
  /\ diffs' = Append(diffs, missing_live_diff(resources[idx],
                                              diff_namespace(resources[idx], release.namespace)))
  /\ idx' = idx + 1
  /\ pc' = "loop"
  /\ UNCHANGED <<release, resources, scope, fetches, requests, ret>>
  /\ UNCHANGED outsideDrift

\* the call fails and the failure propagates out of detect_drift
RespondRaises ==
  /\ pc = "await"
  /\ \E outcome \in { ApiException(s) : s \in ErrorStatuses \cup {NotFoundStatus} } \cup { TransportError } :
       /\ GatewayExcept(requests[Len(requests)].call.op, outcome) = "raise"
       /\ outcomes' = Append(outcomes, outcome)
  /\ pc' = "raised"
  /\ ret' = Raised
  /\ UNCHANGED <<release, resources, idx, scope, diffs, fetches, requests, live>>
  /\ UNCHANGED outsideDrift

\* return result
Return ==
  /\ pc = "loop"
  /\ idx > Len(resources)
  /\ ret' = DriftResult(release.name, release.namespace, diffs)
  /\ pc' = "returned"
  /\ UNCHANGED <<release, resources, idx, scope, diffs, fetches, requests, outcomes, live>>
  /\ UNCHANGED outsideDrift

Next ==
  \/ Parse
  \/ ParseRaises
  \/ Skip
  \/ FetchNone
  \/ FetchCall
  \/ RespondObject
  \/ RespondNone
  \/ RespondRaises
  \/ Return

Spec == Init /\ [][Next]_vars

SpecRoute == InitRoute /\ [][Next]_vars

SpecDiff == InitDiff /\ [][Next]_vars

SpecStrip == InitStrip /\ [][Next]_vars

SpecParse == InitParse /\ [][Next]_vars

(***************************************************************************)
(* core/owner_detector.py: the checks of detect_owner                      *)
(***************************************************************************)
OwnerInfo(controller, confidence, detail) ==
  [controller |-> controller, confidence |-> confidence, detail |-> detail]

\* the outcome of a check: an OwnerInfo, None, or an exception
Match(info) == [kind |-> "match", info |-> info]

NoMatch == [kind |-> "None", info |-> NoOwner]

CheckRaises == [kind |-> "raise", info |-> NoOwner]

\* res.raw.get("metadata", {}).get(...) raises AttributeError: the metadata key
\* is present and its value is not a mapping
metadata_access_raises(res) == Get(res.raw, S("metadata"), Dict({})).t # "map"

\* res.raw.get("metadata", {}).get(key, {}) or {}
metadata_value(res, key) ==
  LET value == Get(Get(res.raw, S("metadata"), Dict({})).m, key, Dict({}))
  IN IF NodeTruthy(value) THEN value ELSE Dict({})

\* the pairs of that value when it is a mapping
metadata_mapping(res, key) ==
  IF metadata_value(res, key).t = "map" THEN metadata_value(res, key).m ELSE {}

\* "key in value" raises TypeError: the value is a number or a boolean
in_raises(value) == value.t = "scalar" /\ value.ty # "str"

\* "key in value": a key of a mapping, an element of a list, a substring of
\* a string
key_in(k, value) ==
  CASE value.t = "map" -> k \in Keys(value.m)
    [] value.t = "list" -> \E i \in 1..Len(value.l) : value.l[i] = Str(k)
    [] value.ty = "str" ->
         \E i \in 1..Len(value.str) :
           i + Len(k) - 1 <= Len(value.str) /\ SubSeq(value.str, i, i + Len(k) - 1) = k
    [] OTHER -> FALSE

\* "value[key]" after "key in value", and "value.get(key, ...)", raise unless
\* the value is a mapping
subscript_raises(value) == value.t # "map"

\* the loop of _check_argocd over the parsed resources
RECURSIVE _check_argocd_loop(_)
_check_argocd_loop(rs) ==
  IF rs = <<>> THEN NoMatch
  ELSE IF metadata_access_raises(Head(rs)) THEN CheckRaises
  ELSE IF in_raises(metadata_value(Head(rs), S("labels"))) THEN CheckRaises
  ELSE IF /\ key_in(S("argocd.argoproj.io/instance"), metadata_value(Head(rs), S("labels")))
          /\ subscript_raises(metadata_value(Head(rs), S("labels")))
  THEN CheckRaises
  ELSE IF key_in(S("argocd.argoproj.io/instance"), metadata_value(Head(rs), S("labels")))
  THEN Match(OwnerInfo("ARGO_CD", "HIGH",
                       [text |-> "Argo CD Application",
                        value |-> Get(metadata_mapping(Head(rs), S("labels")),
                                      S("argocd.argoproj.io/instance"), Absent)]))
  ELSE IF in_raises(metadata_value(Head(rs), S("annotations"))) THEN CheckRaises
  ELSE IF key_in(S("argocd.argoproj.io/tracking-id"), metadata_value(Head(rs), S("annotations")))
  THEN Match(OwnerInfo("ARGO_CD", "HIGH",
                       [text |-> "Argo CD tracking annotation found", value |-> Absent]))
  ELSE _check_argocd_loop(Tail(rs))

_check_argocd(manifest) ==
  IF parse_manifest(manifest).raised THEN CheckRaises
  ELSE _check_argocd_loop(parse_manifest(manifest).resources)

\* the loop of _check_flux over the parsed resources, before the lookup
RECURSIVE _check_flux_loop(_)
_check_flux_loop(rs) ==
  IF rs = <<>> THEN NoMatch
  ELSE IF metadata_access_raises(Head(rs)) THEN CheckRaises
  ELSE IF in_raises(metadata_value(Head(rs), S("labels"))) THEN CheckRaises
  ELSE IF /\ key_in(S("helm.toolkit.fluxcd.io/name"), metadata_value(Head(rs), S("labels")))
          /\ subscript_raises(metadata_value(Head(rs), S("labels")))
  THEN CheckRaises
  ELSE IF key_in(S("helm.toolkit.fluxcd.io/name"), metadata_value(Head(rs), S("labels")))
  THEN Match(OwnerInfo("FLUX_CD", "HIGH",
                       [text |-> "Flux HelmRelease",
                        value |-> Get(metadata_mapping(Head(rs), S("labels")),
                                      S("helm.toolkit.fluxcd.io/name"), Absent)]))
  ELSE _check_flux_loop(Tail(rs))

_check_flux_labels(manifest) ==
  IF parse_manifest(manifest).raised THEN CheckRaises
  ELSE _check_flux_loop(parse_manifest(manifest).resources)

\* labels.get("app.kubernetes.io/managed-by", "")
managed_by(res) ==
  StrOf(Get(metadata_mapping(res, S("labels")), S("app.kubernetes.io/managed-by"), Str(<<>>)))

\* the loop of _check_resource_annotations over the parsed resources
RECURSIVE _check_resource_annotations_loop(_)
_check_resource_annotations_loop(rs) ==
  IF rs = <<>> THEN NoMatch
  ELSE IF metadata_access_raises(Head(rs)) THEN CheckRaises
  ELSE IF subscript_raises(metadata_value(Head(rs), S("labels"))) THEN CheckRaises
  ELSE IF Truthy(managed_by(Head(rs))) /\ Lower(managed_by(Head(rs))) # S("helm")
  THEN Match(OwnerInfo("UNKNOWN", "MEDIUM",
                       [text |-> "managed-by", value |-> Str(managed_by(Head(rs)))]))
  ELSE _check_resource_annotations_loop(Tail(rs))

_check_resource_annotations(manifest) ==
  IF parse_manifest(manifest).raised THEN CheckRaises
  ELSE _check_resource_annotations_loop(parse_manifest(manifest).resources)

\* the fallback of detect_owner
HelmNative ==
  OwnerInfo("HELM_NATIVE", "LOW",
            [text |-> "No controller labels or annotations detected", value |-> Absent])

(***************************************************************************)
(* core/k8s_client.py: list_custom_resources, and the lookups of           *)
(* _check_flux and _check_k3s                                              *)
(***************************************************************************)
ListCall(group, version, plural, namespace) ==
  [method |-> IF Truthy(namespace) THEN "list_namespaced_custom_object"
              ELSE "list_cluster_custom_object",
   group |-> group, version |-> version, plural |-> plural, namespace |-> namespace]

flux_lookup(rel) ==
  ListCall(S("helm.toolkit.fluxcd.io"), S("v2beta1"), S("helmreleases"), rel.namespace)

k3s_lookup(rel) ==
  ListCall(S("helm.cattle.io"), S("v1"), S("helmcharts"), S("kube-system"))

\* the result of the list call: result.get("items", [])
ListOutcome(items) == [type |-> "ok", status |-> 200, items |-> items]

ListApiException(status) == [type |-> "ApiException", status |-> status, items |-> <<>>]

ListTransportError == [type |-> "TransportError", status |-> 0, items |-> <<>>]

\* list_custom_resources: "except ApiException: return []"; any other
\* exception leaves it
list_custom_resources(outcome) ==
  CASE outcome.type = "ok" -> [raised |-> FALSE, items |-> outcome.items]
    [] outcome.type = "ApiException" -> [raised |-> FALSE, items |-> <<>>]
    [] OTHER -> [raised |-> TRUE, items |-> <<>>]

\* "except Exception:" of _check_flux and _check_k3s: logged, then return None
lookup_except(listed) == IF listed.raised THEN "None" ELSE "continue"

\* fr.get("metadata", {}).get("name") == release.name for some item
item_matches(items, rel) ==
  \E i \in 1..Len(items) :
    StrOf(Get(Get(items[i], S("metadata"), Dict({})).m, S("name"), Null)) = rel.name

\* the outcome of the lookup part of _check_flux or _check_k3s
lookup_check(outcome, rel, controller, text) ==
  IF lookup_except(list_custom_resources(outcome)) = "raise" THEN CheckRaises
  ELSE IF lookup_except(list_custom_resources(outcome)) = "None" THEN NoMatch
  ELSE IF item_matches(list_custom_resources(outcome).items, rel)
  THEN Match(OwnerInfo(controller, "HIGH", [text |-> text, value |-> Str(rel.name)]))
  ELSE NoMatch

\* mutant: the Flux CD labels are looked at before the Argo CD ones
before_lookup_flux_first(manifest) ==
  IF _check_flux_labels(manifest).kind # "None"
  THEN [checks |-> <<"argocd", "flux">>, result |-> _check_flux_labels(manifest)]
  ELSE IF _check_argocd(manifest).kind # "None"
  THEN [checks |-> <<"argocd">>, result |-> _check_argocd(manifest)]
  ELSE [checks |-> <<"argocd", "flux">>, result |-> NoMatch]

\* detect_owner up to the lookup of _check_flux: _check_argocd, and if it
\* returns None the labels of _check_flux
before_lookup(manifest) ==
  IF _check_argocd(manifest).kind # "None"
  THEN [checks |-> <<"argocd">>, result |-> _check_argocd(manifest)]
  ELSE [checks |-> <<"argocd", "flux">>, result |-> _check_flux_labels(manifest)]

\* detect_owner after _check_k3s returned None: _check_resource_annotations,
\* then the fallback
after_lookups(manifest) ==
  IF _check_resource_annotations(manifest).kind = "None" THEN Match(HelmNative)
  ELSE _check_resource_annotations(manifest)

(***************************************************************************)
(* SpecOwner: detect_owner as a state machine, on releases whose manifest  *)
(* holds up to MaxRes documents of OwnerDocs.  opc is the position in      *)
(* detect_owner: "start" at its entry, "flux_lookup" and "k3s_lookup"      *)
(* inside the list call of _check_flux and _check_k3s, "returned" and      *)
(* "raised" after it ended ("idle" when it is not called).                 *)
(***************************************************************************)
Labelled(name, key, field, value) ==
  Dict({ <<S("apiVersion"), Str(S("v1"))>>, <<S("kind"), Str(S("ConfigMap"))>>,
         <<S("metadata"), Dict({ <<S("name"), Str(name)>>,
                                 <<key, Dict({ <<field, Str(value)>> })>> })>> })

OwnerDocs ==
  { MkDoc(S("v1"), S("ConfigMap"), S("cfg"), <<>>, {}),
    Labelled(S("cfg"), S("labels"), S("argocd.argoproj.io/instance"), S("myapp")),
    Labelled(S("cfg"), S("annotations"), S("argocd.argoproj.io/tracking-id"), S("v")),
    Labelled(S("cfg"), S("labels"), S("helm.toolkit.fluxcd.io/name"), S("web")),
    Labelled(S("cfg"), S("labels"), S("app.kubernetes.io/managed-by"), S("Helm")),
    Labelled(S("cfg"), S("labels"), S("app.kubernetes.io/managed-by"), S("helm")),
    Labelled(S("cfg"), S("labels"), S("app.kubernetes.io/managed-by"), S("argocd")),
    Labelled(S("cfg"), S("annotations"), S("app.kubernetes.io/managed-by"), S("argocd")),
    Dict({ <<S("kind"), Str(S("ConfigMap"))>>,
           <<S("metadata"), Dict({ <<S("name"), Str(S("cfg"))>>, <<S("labels"), Null>> })>> }),
    Dict({ <<S("kind"), Str(S("ConfigMap"))>> }),
    Dict({ <<S("kind"), Str(S("ConfigMap"))>>, <<S("metadata"), Null>> }),
    Dict({ <<S("kind"), Str(S("ConfigMap"))>>,
           <<S("metadata"), Dict({ <<S("name"), Str(S("cfg"))>>, <<S("labels"), Str(S("d"))>> })>> }),
    Dict({ <<S("kind"), Str(S("ConfigMap"))>>,
           <<S("metadata"), Dict({ <<S("name"), Str(S("cfg"))>>, <<S("annotations"), Num(1)>> })>> }),
    Malformed }

\* a custom resource of a list result
Item(name) == { <<S("metadata"), Dict({ <<S("name"), Str(name)>> })>> }

\* the outcomes of a list call: a list of custom resources, an ApiException
\* (CRD absent: 404, RBAC denial: 403, ...), or another error
ListOutcomes ==
  { ListOutcome(items) : items \in { <<>>, << Item(S("cfg")) >>, << Item(S("cfg")), Item(S("web")) >> } }
  \cup { ListApiException(status) : status \in ErrorStatuses \cup { NotFoundStatus } }
  \cup { ListTransportError }

InitOwner ==
  /\ IndexIdle
  /\ UpdateIdle
  /\ StoreIdle
  /\ release \in { HelmRelease(S("web"), S("default"), m) : m \in SeqsUpTo(OwnerDocs, MaxRes) }
  /\ pc = "start"
  /\ resources = <<>>
  /\ idx = 0
  /\ scope = NoScope
  /\ diffs = <<>>
  /\ fetches = <<>>
  /\ requests = <<>>
  /\ outcomes = <<>>
  /\ live = NoLive
  /\ ret = NoReturn
  /\ opc = "start"
  /\ checks = <<>>
  /\ lookups = <<>>
  /\ answers = <<>>
  /\ owner = NoOwner

\* a check raises before any lookup: detect_owner ends with the error
OwnerRaises ==
  /\ opc = "start"
  /\ before_lookup(release.manifest).result.kind = "raise"
  /\ checks' = before_lookup(release.manifest).checks
  /\ opc' = "raised"
  /\ UNCHANGED <<release, lookups, answers, owner>>
  /\ UNCHANGED outsideOwner

\* _check_argocd, or the labels of _check_flux, return an OwnerInfo
OwnerReturnsLabelled ==
  /\ opc = "start"
  /\ before_lookup(release.manifest).result.kind = "match"
  /\ checks' = before_lookup(release.manifest).checks
  /\ owner' = before_lookup(release.manifest).result.info
  /\ opc' = "returned"
  /\ UNCHANGED <<release, lookups, answers>>
  /\ UNCHANGED outsideOwner

\* no label matched: _check_flux lists the Flux HelmReleases
FluxLookup ==
  /\ opc = "start"
  /\ before_lookup(release.manifest).result.kind = "None"
  /\ checks' = before_lookup(release.manifest).checks
  /\ lookups' = Append(lookups, flux_lookup(release))
  /\ opc' = "flux_lookup"
  /\ UNCHANGED <<release, answers, owner>>
  /\ UNCHANGED outsideOwner

\* the list call of _check_flux ends: a matching item returns FLUX_CD;
\* otherwise _check_k3s lists the HelmCharts
FluxAnswer ==
  /\ opc = "flux_lookup"
  /\ \E outcome \in ListOutcomes :
       LET result == lookup_check(outcome, release, "FLUX_CD", "Flux HelmRelease CRD") IN
       /\ answers' = Append(answers, outcome)
       /\ owner' = IF result.kind = "match" THEN result.info ELSE owner
       /\ checks' = IF result.kind = "None" THEN Append(checks, "k3s") ELSE checks
       /\ lookups' = IF result.kind = "None" THEN Append(lookups, k3s_lookup(release)) ELSE lookups
       /\ opc' = CASE result.kind = "match" -> "returned"
                   [] result.kind = "raise" -> "raised"
                   [] OTHER -> "k3s_lookup"
  /\ UNCHANGED release
  /\ UNCHANGED outsideOwner

\* the list call of _check_k3s ends: a matching item returns K3S_HELMCHART;
\* otherwise _check_resource_annotations runs, then the fallback
K3sAnswer ==
  /\ opc = "k3s_lookup"
  /\ \E outcome \in ListOutcomes :
       LET result == lookup_check(outcome, release, "K3S_HELMCHART", "k3s HelmChart")
           last == after_lookups(release.manifest)
       IN
       /\ answers' = Append(answers, outcome)
       /\ checks' = IF result.kind = "None" THEN Append(checks, "managed-by") ELSE checks
       /\ owner' = CASE result.kind = "match" -> result.info
                     [] result.kind = "None" /\ last.kind = "match" -> last.info
                     [] OTHER -> owner
       /\ opc' = IF result.kind = "raise" \/ (result.kind = "None" /\ last.kind = "raise")
                 THEN "raised" ELSE "returned"
  /\ UNCHANGED <<release, lookups>>
  /\ UNCHANGED outsideOwner

NextOwner ==
  \/ OwnerRaises
  \/ OwnerReturnsLabelled
  \/ FluxLookup
  \/ FluxAnswer
  \/ K3sAnswer

SpecOwner == InitOwner /\ [][NextOwner]_vars

(***************************************************************************)
(* core/repo_resolver.py: _load_index and the JSON sidecar of an index     *)
(* file                                                                    *)
(***************************************************************************)
\* {"version": e.get("version", ""), "appVersion": e.get("appVersion", "")}
lightweight_entry(e) ==
  Dict({ <<S("version"), Get(e.m, S("version"), Str(<<>>))>>,
         <<S("appVersion"), Get(e.m, S("appVersion"), Str(<<>>))>> })

\* [... for e in chart_entries if "version" in e]
RECURSIVE lightweight_entries(_)
lightweight_entries(chart_entries) ==
  IF chart_entries = <<>> THEN <<>>
  ELSE IF S("version") \in Keys(Head(chart_entries).m)
  THEN << lightweight_entry(Head(chart_entries)) >> \o lightweight_entries(Tail(chart_entries))
  ELSE lightweight_entries(Tail(chart_entries))

\* _build_sidecar gives up: the index does not parse, is empty or has no "entries"
index_unusable(content) ==
  \/ content = Malformed
  \/ ~NodeTruthy(content)
  \/ S("entries") \notin Keys(content.m)

\* the lightweight dict _build_sidecar extracts from the text of the index, or None
lightweight(content) ==
  IF index_unusable(content) THEN Null
  ELSE Dict({ <<p[1], List(lightweight_entries(p[2].l))>> :
              p \in Get(content.m, S("entries"), Dict({})).m })

\* the text of a sidecar: json.dumps of a value, or text that is no JSON
json_dumps(value) == [format |-> "json", value |-> value]

CorruptText == [format |-> "corrupt", value |-> Null]

\* json.loads(sidecar.read_text()): the value, or an exception
json_loads(text) == [raised |-> text.format # "json", value |-> text.value]

\* mutant: the sidecar is used whenever it exists
_sidecar_is_fresh_exists(index_file, sidecar_file) == sidecar_file.exists

_sidecar_is_fresh(index_file, sidecar_file) ==
  IF ~sidecar_file.exists THEN FALSE
  ELSE IF ~index_file.exists THEN FALSE
  ELSE sidecar_file.mtime >= index_file.mtime

(***************************************************************************)
(* SpecSidecar: two processes run _load_index on the same index path, up   *)
(* to MaxLoads times in all, while another program rewrites the index      *)
(* file as long as the clock is below MaxClock.  Every write stamps the     *)
(* file with a later time than every earlier write.  A run of _load_index  *)
(* is cut at its file accesses: the freshness test, the read of the        *)
(* sidecar, the read of the index and the write of the sidecar.            *)
(***************************************************************************)
MaxLoads == 2

MaxClock == 2

\* two processes
Procs == {1, 2}

Chart(entries) == List(entries)

Entry(pairs) == Dict({ <<p[1], Str(p[2])>> : p \in pairs })

\* texts of the index file: two indexes of the chart nginx, one without
\* "entries", and one that is no YAML
IndexContents ==
  { Dict({ <<S("entries"), Dict({ <<S("nginx"),
             Chart(<< Entry({ <<S("version"), S("1.0.0")>>, <<S("appVersion"), S("1")>>,
                              <<S("digest"), S("d")>> }),
                      Entry({ <<S("appVersion"), S("2")>> }) >>)>> })>> }),
    Dict({ <<S("entries"), Dict({ <<S("nginx"),
             Chart(<< Entry({ <<S("version"), S("1.1.0")>> }),
                      Entry({ <<S("version"), S("1.0.0")>>, <<S("appVersion"), S("1")>> }) >>)>> })>> }),
    Dict({ <<S("apiVersion"), Str(S("v1"))>> }),
    Malformed }

\* _index_cache of a process: whether the index path is a key, and its value
Memo(present, value) == [present |-> present, value |-> value]

\* a process outside _load_index, having called it calls times
Loader(calls) ==
  [pc |-> "idle", calls |-> calls, at_call |-> [index |-> NoFile, sidecar |-> NoFile],
   text |-> CorruptText, read |-> Null, lightweight |-> Null,
   via |-> "none", wrote |-> "none", result |-> Null]

InitSidecar ==
  /\ UpdateIdle
  /\ StoreIdle
  /\ release = HelmRelease(S("web"), S("default"), <<>>)
  /\ pc = "start"
  /\ resources = <<>>
  /\ idx = 0
  /\ scope = NoScope
  /\ diffs = <<>>
  /\ fetches = <<>>
  /\ requests = <<>>
  /\ outcomes = <<>>
  /\ live = NoLive
  /\ ret = NoReturn
  /\ opc = "idle"
  /\ checks = <<>>
  /\ lookups = <<>>
  /\ answers = <<>>
  /\ owner = NoOwner
  /\ clock = 1
  /\ \E content \in IndexContents :
       /\ index = File(TRUE, content, 1)
       /\ sidecar \in
            { NoFile, File(TRUE, CorruptText, 1) }
            \cup { File(TRUE, json_dumps(lightweight(older)), 0) :
                   older \in { c \in IndexContents \ {content} : ~index_unusable(c) } }
            \cup { File(TRUE, json_dumps(lightweight(c)), 1) :
                   c \in { c \in {content} : ~index_unusable(c) } }
  /\ _index_cache = [p \in Procs |-> Memo(FALSE, Null)]
  /\ loader = [p \in Procs |-> Loader(0)]

RECURSIVE CallsOf(_)
CallsOf(ps) ==
  IF ps = {} THEN 0
  ELSE LET p == CHOOSE q \in ps : TRUE IN loader[p].calls + CallsOf(ps \ {p})

\* "if index_path in _index_cache: return _index_cache[index_path]"
LoadCached(p) ==
  /\ loader[p].pc = "idle"
  /\ CallsOf(Procs) < MaxLoads
  /\ _index_cache[p].present
  /\ loader' = [loader EXCEPT ![p] =
       [Loader(loader[p].calls + 1) EXCEPT
          !.pc = "returned", !.at_call = [index |-> index, sidecar |-> sidecar],
          !.via = "memo", !.result = _index_cache[p].value]]
  /\ UNCHANGED <<index, sidecar, clock, _index_cache>>
  /\ UNCHANGED outsideIndex

\* the index path is not in _index_cache: _sidecar_is_fresh(index_path, sidecar)
LoadTest(p) ==
  /\ loader[p].pc = "idle"
  /\ CallsOf(Procs) < MaxLoads
  /\ ~_index_cache[p].present
  /\ loader' = [loader EXCEPT ![p] =
       [Loader(loader[p].calls + 1) EXCEPT
          !.pc = IF _sidecar_is_fresh(index, sidecar) THEN "read" ELSE "build",
          !.at_call = [index |-> index, sidecar |-> sidecar]]]
  /\ UNCHANGED <<index, sidecar, clock, _index_cache>>
  /\ UNCHANGED outsideIndex

\* json.loads(sidecar.read_text()): the value is memoised and returned, or
\* the exception is logged and _build_sidecar runs
ReadSidecar(p) ==
  /\ loader[p].pc = "read"
  /\ IF json_loads(sidecar.content).raised
     THEN /\ loader' = [loader EXCEPT ![p].pc = "build", ![p].text = sidecar.content]
          /\ UNCHANGED _index_cache
     ELSE /\ loader' = [loader EXCEPT ![p].pc = "returned", ![p].text = sidecar.content,
                                      ![p].via = "sidecar",
                                      ![p].result = json_loads(sidecar.content).value]
          /\ _index_cache' = [_index_cache EXCEPT ![p] = Memo(TRUE, json_loads(sidecar.content).value)]
  /\ UNCHANGED <<index, sidecar, clock>>
  /\ UNCHANGED outsideIndex

\* _build_sidecar reads and parses the index: None is memoised and returned
\* when it is unusable, else the lightweight dict is extracted
BuildRead(p) ==
  /\ loader[p].pc = "build"
  /\ IF index_unusable(index.content)
     THEN /\ loader' = [loader EXCEPT ![p].pc = "returned", ![p].read = index.content,
                                      ![p].via = "index", ![p].result = Null]
          /\ _index_cache' = [_index_cache EXCEPT ![p] = Memo(TRUE, Null)]
     ELSE /\ loader' = [loader EXCEPT ![p].pc = "write", ![p].read = index.content,
                                      ![p].lightweight = lightweight(index.content)]
          /\ UNCHANGED _index_cache
  /\ UNCHANGED <<index, sidecar, clock>>
  /\ UNCHANGED outsideIndex

\* sidecar.write_text(json.dumps(lightweight)), then memoise and return
WriteSidecar(p) ==
  /\ loader[p].pc = "write"
  /\ clock' = clock + 1
  /\ sidecar' = File(TRUE, json_dumps(loader[p].lightweight), clock + 1)
  /\ loader' = [loader EXCEPT ![p].pc = "returned", ![p].via = "index", ![p].wrote = "ok",
                              ![p].result = loader[p].lightweight]
  /\ _index_cache' = [_index_cache EXCEPT ![p] = Memo(TRUE, loader[p].lightweight)]
  /\ UNCHANGED index
  /\ UNCHANGED outsideIndex

\* the write raises OSError: logged, then memoise and return
WriteFails(p) ==
  /\ loader[p].pc = "write"
  /\ loader' = [loader EXCEPT ![p].pc = "returned", ![p].via = "index", ![p].wrote = "failed",
                              ![p].result = loader[p].lightweight]
  /\ _index_cache' = [_index_cache EXCEPT ![p] = Memo(TRUE, loader[p].lightweight)]
  /\ UNCHANGED <<index, sidecar, clock>>
  /\ UNCHANGED outsideIndex

\* the caller goes on: the next call of the same command finds _index_cache
NextCall(p) ==
  /\ loader[p].pc = "returned"
  /\ loader' = [loader EXCEPT ![p] = Loader(loader[p].calls)]
  /\ UNCHANGED <<index, sidecar, clock, _index_cache>>
  /\ UNCHANGED outsideIndex

\* clear_caches(): the next command starts with an empty _index_cache
clear_caches(p) ==
  /\ loader[p].pc = "returned"
  /\ loader' = [loader EXCEPT ![p] = Loader(loader[p].calls)]
  /\ _index_cache' = [_index_cache EXCEPT ![p] = Memo(FALSE, Null)]
  /\ UNCHANGED <<index, sidecar, clock>>
  /\ UNCHANGED outsideIndex

\* another program (helm repo update) rewrites the index file
RewriteIndex ==
  /\ clock < MaxClock
  /\ clock' = clock + 1
  /\ \E content \in IndexContents \ {index.content} : index' = File(TRUE, content, clock + 1)
  /\ UNCHANGED <<sidecar, _index_cache, loader>>
  /\ UNCHANGED outsideIndex

NextSidecar ==
  \/ \E p \in Procs : LoadCached(p)
  \/ \E p \in Procs : LoadTest(p)
  \/ \E p \in Procs : ReadSidecar(p)
  \/ \E p \in Procs : BuildRead(p)
  \/ \E p \in Procs : WriteSidecar(p)
  \/ \E p \in Procs : WriteFails(p)
  \/ \E p \in Procs : NextCall(p)
  \/ \E p \in Procs : clear_caches(p)
  \/ RewriteIndex

SpecSidecar == InitSidecar /\ [][NextSidecar]_vars

(***************************************************************************)
(* utils/version_compare.py.  A version is modelled for the version        *)
(* strings made of digits and dots with an optional leading "v", which     *)
(* packaging.version.Version accepts; every other string of the inputs is  *)
(* one it rejects with InvalidVersion.                                     *)
(***************************************************************************)
Digits == <<"0", "1", "2", "3", "4", "5", "6", "7", "8", "9">>

IsDigit(c) == \E i \in 1..10 : Digits[i] = c

DigitValue(c) == (CHOOSE i \in 1..10 : Digits[i] = c) - 1

RECURSIVE ParseInt(_, _)
ParseInt(s, acc) ==
  IF s = <<>> THEN acc ELSE ParseInt(Tail(s), acc * 10 + DigitValue(Head(s)))

\* s.split(".")
RECURSIVE SplitDots(_, _, _)
SplitDots(s, cur, acc) ==
  IF s = <<>> THEN Append(acc, cur)
  ELSE IF Head(s) = "." THEN SplitDots(Tail(s), <<>>, Append(acc, cur))
  ELSE SplitDots(Tail(s), Append(cur, Head(s)), acc)

InvalidVersion == [valid |-> FALSE, release |-> <<>>]

\* packaging.version.Version(v): the release segment, or InvalidVersion
Version(v) ==
  LET body == IF v # <<>> /\ Head(v) = "v" THEN Tail(v) ELSE v
      parts == SplitDots(body, <<>>, <<>>)
  IN IF \E i \in 1..Len(parts) : parts[i] = <<>> \/ \E j \in 1..Len(parts[i]) : ~IsDigit(parts[i][j])
     THEN InvalidVersion
     ELSE [valid |-> TRUE, release |-> [i \in 1..Len(parts) |-> ParseInt(parts[i], 0)]]

\* parse_version: Version(v), else Version(v[1:]) for a leading "v", else None
parse_version(v) ==
  IF Version(v).valid THEN Version(v)
  ELSE IF StartsWith(v, S("v")) /\ Version(Tail(v)).valid THEN Version(Tail(v))
  ELSE InvalidVersion

\* the n-th number of a release segment, 0 beyond its end
Component(segment, n) == IF n <= Len(segment) THEN segment[n] ELSE 0

\* Version.__gt__: release segments compared number by number, a missing
\* number counting as 0
VersionGreater(a, b) ==
  \E n \in 1..(Len(a.release) + Len(b.release)) :
    /\ Component(a.release, n) > Component(b.release, n)
    /\ \A m \in 1..(n - 1) : Component(a.release, m) = Component(b.release, m)

\* mutant: a candidate of the same version counts as newer
is_newer_or_equal(current, candidate) ==
  IF ~parse_version(current).valid \/ ~parse_version(candidate).valid THEN FALSE
  ELSE ~VersionGreater(parse_version(current), parse_version(candidate))

is_newer(current, candidate) ==
  IF ~parse_version(current).valid \/ ~parse_version(candidate).valid THEN FALSE
  ELSE VersionGreater(parse_version(candidate), parse_version(current))

\* mutant: the minor number is not looked at
classify_update_no_minor(current, latest) ==
  LET cur == parse_version(current)
      lat == parse_version(latest)
  IN IF ~cur.valid \/ ~lat.valid THEN "unknown"
     ELSE IF ~VersionGreater(lat, cur) THEN "up-to-date"
     ELSE IF Component(lat.release, 1) > Component(cur.release, 1) THEN "major"
     ELSE "patch"

classify_update(current, latest) ==
  LET cur == parse_version(current)
      lat == parse_version(latest)
  IN IF ~cur.valid \/ ~lat.valid THEN "unknown"
     ELSE IF ~VersionGreater(lat, cur) THEN "up-to-date"
     ELSE IF Component(lat.release, 1) > Component(cur.release, 1) THEN "major"
     ELSE IF Component(lat.release, 2) > Component(cur.release, 2) THEN "minor"
     ELSE "patch"

(***************************************************************************)
(* core/repo_resolver.py: get_all_repo_versions; core/update_checker.py    *)
(***************************************************************************)
\* [e["version"] for e in entries if "version" in e]
RECURSIVE versions_of(_)
versions_of(entries) ==
  IF entries = <<>> THEN <<>>
  ELSE IF S("version") \in Keys(Head(entries).m)
  THEN << StrOf(Get(Head(entries).m, S("version"), Absent)) >> \o versions_of(Tail(entries))
  ELSE versions_of(Tail(entries))

\* _get_versions_from_index, on the data _load_index returns for the index
_get_versions_from_index(data, chart_name) ==
  IF data = Null THEN <<>>
  ELSE versions_of(Get(data.m, chart_name, List(<<>>)).l)

\* get_all_repo_versions: the repositories in the order of repositories.yaml,
\* each with its versions of the chart, those without any left out
RECURSIVE get_all_repo_versions(_, _)
get_all_repo_versions(rs, chart_name) ==
  IF rs = <<>> THEN <<>>
  ELSE IF _get_versions_from_index(Head(rs).data, chart_name) # <<>>
  THEN << [repo_name |-> Head(rs).name,
           versions |-> _get_versions_from_index(Head(rs).data, chart_name)] >>
       \o get_all_repo_versions(Tail(rs), chart_name)
  ELSE get_all_repo_versions(Tail(rs), chart_name)

\* the inner loop of _find_latest over the versions of one repository
RECURSIVE _find_latest_versions(_, _, _)
_find_latest_versions(best, repo_name, versions) ==
  IF versions = <<>> THEN best
  ELSE IF is_newer(best.version, Head(versions))
  THEN _find_latest_versions([version |-> Head(versions), repo |-> repo_name], repo_name, Tail(versions))
  ELSE _find_latest_versions(best, repo_name, Tail(versions))

\* the outer loop of _find_latest over repo_versions.items()
RECURSIVE _find_latest_repos(_, _)
_find_latest_repos(best, repo_versions) ==
  IF repo_versions = <<>> THEN best
  ELSE _find_latest_repos(
         _find_latest_versions(best, Head(repo_versions).repo_name, Head(repo_versions).versions),
         Tail(repo_versions))

\* _find_latest: (version, repo_name), or None when the best version is the current one
_find_latest(current, repo_versions) ==
  LET best == _find_latest_repos([version |-> current, repo |-> <<>>], repo_versions)
  IN IF best.version # current
     THEN [found |-> TRUE, version |-> best.version, repo |-> best.repo]
     ELSE [found |-> FALSE, version |-> current, repo |-> <<>>]

UpdateInfo(chart_name, current_version, latest_version, app_version_current, update_type) ==
  [chart_name |-> chart_name, current_version |-> current_version,
   latest_version |-> latest_version, app_version_current |-> app_version_current,
   app_version_latest |-> <<>>, update_type |-> update_type]

\* the UpdateInfo check_updates appends for a release
update_of(rel, rs) ==
  LET latest == _find_latest(rel.chart_version, get_all_repo_versions(rs, rel.chart_name))
  IN UpdateInfo(rel.chart_name, rel.chart_version, latest.version, rel.app_version,
                IF latest.found THEN classify_update(rel.chart_version, latest.version)
                ELSE "up-to-date")

(***************************************************************************)
(* SpecUpdate: check_updates on a fixed list of releases (with and without *)
(* chart name and version, with a current version that does not parse, of  *)
(* a chart no repository lists) against two repositories in either order:  *)
(* the index of one lists up to MaxVersions versions of the chart nginx or *)
(* could not be loaded, the index of the other lists at most one version.  *)
(***************************************************************************)
MaxVersions == 2

\* the chart metadata of a HelmRelease
ChartOf(chart_name, chart_version, app_version) ==
  [chart_name |-> chart_name, chart_version |-> chart_version, app_version |-> app_version]

UpdateReleases ==
  << ChartOf(S("nginx"), S("1.0.0"), S("1")),
     ChartOf(<<>>, S("1.0.0"), S("1")),
     ChartOf(S("nginx"), S("latest"), S("1")),
     ChartOf(S("nginx"), <<>>, S("1")),
     ChartOf(S("nginx"), S("v1.1.0"), S("2")),
     ChartOf(S("redis"), S("1.0.0"), S("1")) >>

VersionStrings ==
  { S("1.0.0"), S("1.0.1"), S("1.1.0"), S("v1.1.0"), S("2.0.0"), S("latest") }

\* the data of an index that lists these versions of nginx
IndexOf(versions) ==
  Dict({ <<S("nginx"),
           List([i \in 1..Len(versions) |->
                   Dict({ <<S("version"), Str(versions[i])>>, <<S("appVersion"), Str(<<>>)>> })])>> })

Repo(name, data) == [name |-> name, data |-> data]

InitUpdate ==
  /\ IndexIdle
  /\ StoreIdle
  /\ release = HelmRelease(S("web"), S("default"), <<>>)
  /\ pc = "start"
  /\ resources = <<>>
  /\ idx = 0
  /\ scope = NoScope
  /\ diffs = <<>>
  /\ fetches = <<>>
  /\ requests = <<>>
  /\ outcomes = <<>>
  /\ live = NoLive
  /\ ret = NoReturn
  /\ opc = "idle"
  /\ checks = <<>>
  /\ lookups = <<>>
  /\ answers = <<>>
  /\ owner = NoOwner
  /\ releases = UpdateReleases
  /\ \E first \in SeqsUpTo(VersionStrings, MaxVersions), second \in SeqsUpTo(VersionStrings, 1) :
       \E data \in { IndexOf(first), Null } :
         repos \in { << Repo(S("stable"), data), Repo(S("bitnami"), IndexOf(second)) >>,
                     << Repo(S("bitnami"), IndexOf(second)), Repo(S("stable"), data) >> }
  /\ upc = 1
  /\ results = <<>>

\* "if not chart_name or not current_version: continue"
UpdateSkip ==
  /\ upc \in 1..Len(releases)
  /\ ~Truthy(releases[upc].chart_name) \/ ~Truthy(releases[upc].chart_version)
  /\ upc' = upc + 1
  /\ UNCHANGED <<releases, repos, results>>
  /\ UNCHANGED outsideUpdate

\* get_all_repo_versions, _find_latest, classify_update, results.append
UpdateAppend ==
  /\ upc \in 1..Len(releases)
  /\ Truthy(releases[upc].chart_name) /\ Truthy(releases[upc].chart_version)
  /\ results' = Append(results, update_of(releases[upc], repos))
  /\ upc' = upc + 1
  /\ UNCHANGED <<releases, repos>>
  /\ UNCHANGED outsideUpdate

\* "return results"
UpdateReturn ==
  /\ upc = Len(releases) + 1
  /\ upc' = 0
  /\ UNCHANGED <<releases, repos, results>>
  /\ UNCHANGED outsideUpdate

NextUpdate ==
  \/ UpdateSkip
  \/ UpdateAppend
  \/ UpdateReturn

SpecUpdate == InitUpdate /\ [][NextUpdate]_vars

(***************************************************************************)
(* core/release_store.py: get_release, with the secrets storage driver.    *)
(* A storage object carries its namespace, its type, its labels (a set of  *)
(* <<key, value>> pairs) and the release payload, which either decodes to  *)
(* a release dict or does not decode.                                      *)
(***************************************************************************)
Secret(namespace, type, labels, data) ==
  [namespace |-> namespace, type |-> type, labels |-> labels, data |-> data]

\* a payload decode_release_secret cannot decode
CorruptPayload == [decodes |-> FALSE, name |-> <<>>, namespace |-> <<>>, version |-> 0]

Payload(name, namespace, version) ==
  [decodes |-> TRUE, name |-> name, namespace |-> namespace, version |-> version]

\* settings.helm_label_selector and settings.secret_type
helm_label_selector == { <<S("owner"), S("helm")>> }

secret_type == S("helm.sh/release.v1")

\* what get_release returns: None or a HelmRelease (name, namespace, revision)
NoneRelease == [none |-> TRUE, name |-> <<>>, namespace |-> <<>>, version |-> 0]

from_dict(d) == [none |-> FALSE, name |-> d.name, namespace |-> d.namespace, version |-> d.version]

\* decode_secret: None when the payload does not decode
decode_secret(secret) ==
  IF ~secret.data.decodes THEN NoneRelease ELSE from_dict(secret.data)

\* _label_metadata
_label_metadata(obj) == obj.labels

\* quick_metadata_from_labels: name, namespace and int(labels.get("version", "0"))
quick_metadata_from_labels(obj) ==
  [name |-> Get(_label_metadata(obj), S("name"), <<>>),
   namespace |-> obj.namespace,
   version |-> ParseInt(Get(_label_metadata(obj), S("version"), S("0")), 0)]

\* an equality label selector matches the objects that carry each of its labels
LabelsMatch(selector, obj) == selector \subseteq obj.labels

\* mutant: the list spans all namespaces whatever namespace is given
list_helm_secrets_all_namespaces(cluster, namespace, release_name) ==
  LET label == IF Truthy(release_name)
               THEN helm_label_selector \cup { <<S("name"), release_name>> }
               ELSE helm_label_selector
      listed(obj) == LabelsMatch(label, obj) /\ obj.type = secret_type
  IN SelectSeq(cluster, listed)

\* list_helm_secrets: the label selector gets ",name=<release_name>" when a
\* release name is given; the list is namespaced when a namespace is given
\* and spans all namespaces otherwise
list_helm_secrets(cluster, namespace, release_name) ==
  LET label == IF Truthy(release_name)
               THEN helm_label_selector \cup { <<S("name"), release_name>> }
               ELSE helm_label_selector
      listed(obj) == /\ LabelsMatch(label, obj)
                     /\ obj.type = secret_type
                     /\ Truthy(namespace) => obj.namespace = namespace
  IN SelectSeq(cluster, listed)

(***************************************************************************)
(* SpecStore: get_release("web", namespace), for no namespace and for each *)
(* of three namespaces, on a cluster that lists up to MaxSecrets objects:   *)
(* revisions of web in two namespaces (one without a version label, one    *)
(* with a payload that does not decode), a release of another name, a      *)
(* secret that is not Helm's and one of another type.                      *)
(***************************************************************************)
MaxSecrets == 3

HelmSecret(name, namespace, version, data) ==
  Secret(namespace, secret_type,
         { <<S("owner"), S("helm")>>, <<S("name"), name>>, <<S("version"), version>> }, data)

StoreObjects ==
  { HelmSecret(S("web"), S("default"), S("1"), Payload(S("web"), S("default"), 1)),
    HelmSecret(S("web"), S("default"), S("2"), Payload(S("web"), S("default"), 2)),
    HelmSecret(S("web"), S("prod"), S("2"), Payload(S("web"), S("prod"), 2)),
    HelmSecret(S("web"), S("prod"), S("10"), Payload(S("web"), S("prod"), 10)),
    HelmSecret(S("web"), S("prod"), S("10"), CorruptPayload),
    Secret(S("default"), secret_type, { <<S("owner"), S("helm")>>, <<S("name"), S("web")>> },
           Payload(S("web"), S("default"), 0)),
    HelmSecret(S("api"), S("default"), S("10"), Payload(S("api"), S("default"), 10)),
    Secret(S("default"), secret_type, { <<S("name"), S("web")>>, <<S("version"), S("10")>> },
           CorruptPayload),
    Secret(S("prod"), S("Opaque"),
           { <<S("owner"), S("helm")>>, <<S("name"), S("web")>>, <<S("version"), S("10")>> },
           CorruptPayload) }

QueryNamespaces == { <<>>, S("default"), S("prod"), S("kube-system") }

Position(at, i) == [at |-> at, i |-> i]

InitStore ==
  /\ IndexIdle
  /\ UpdateIdle
  /\ release = HelmRelease(S("web"), S("default"), <<>>)
  /\ pc = "start"
  /\ resources = <<>>
  /\ idx = 0
  /\ scope = NoScope
  /\ diffs = <<>>
  /\ fetches = <<>>
  /\ requests = <<>>
  /\ outcomes = <<>>
  /\ live = NoLive
  /\ ret = NoReturn
  /\ opc = "idle"
  /\ checks = <<>>
  /\ lookups = <<>>
  /\ answers = <<>>
  /\ owner = NoOwner
  /\ secrets \in SeqsUpTo(StoreObjects, MaxSecrets)
  /\ query \in { [name |-> S("web"), namespace |-> ns] : ns \in QueryNamespaces }
  /\ spc = Position("start", 0)
  /\ objects = <<>>
  /\ best_version = -1
  /\ best_obj = 0
  /\ got = [returned |-> FALSE, value |-> NoneRelease]

\* objects = self.k8s.list_helm_secrets(namespace=namespace, release_name=name)
StoreList ==
  /\ spc.at = "start"
  /\ objects' = list_helm_secrets(secrets, query.namespace, query.name)
  /\ spc' = Position("listed", 0)
  /\ UNCHANGED <<secrets, query, best_version, best_obj, got>>
  /\ UNCHANGED outsideStore

\* "if not objects: return None"
StoreNone ==
  /\ spc.at = "listed"
  /\ objects = <<>>
  /\ got' = [returned |-> TRUE, value |-> NoneRelease]
  /\ spc' = Position("done", 0)
  /\ UNCHANGED <<secrets, query, objects, best_version, best_obj>>
  /\ UNCHANGED outsideStore

\* best_version = -1; best_obj = None
StoreLoop ==
  /\ spc.at = "listed"
  /\ objects # <<>>
  /\ best_version' = -1
  /\ best_obj' = 0
  /\ spc' = Position("loop", 1)
  /\ UNCHANGED <<secrets, query, objects, got>>
  /\ UNCHANGED outsideStore

\* one turn of "for obj in objects"; best_obj is the position of the object
StoreVisit ==
  /\ spc.at = "loop"
  /\ spc.i <= Len(objects)
  /\ IF quick_metadata_from_labels(objects[spc.i]).version > best_version
     THEN /\ best_version' = quick_metadata_from_labels(objects[spc.i]).version
          /\ best_obj' = spc.i
     ELSE UNCHANGED <<best_version, best_obj>>
  /\ spc' = Position("loop", spc.i + 1)
  /\ UNCHANGED <<secrets, query, objects, got>>
  /\ UNCHANGED outsideStore

\* "if best_obj is None: return None", "return decode_fn(best_obj, ...)"
StoreReturn ==
  /\ spc.at = "loop"
  /\ spc.i > Len(objects)
  /\ got' = [returned |-> TRUE,
             value |-> IF best_obj = 0 THEN NoneRelease ELSE decode_secret(objects[best_obj])]
  /\ spc' = Position("done", 0)
  /\ UNCHANGED <<secrets, query, objects, best_version, best_obj>>
  /\ UNCHANGED outsideStore

NextStore ==
  \/ StoreList
  \/ StoreNone
  \/ StoreLoop
  \/ StoreVisit
  \/ StoreReturn

SpecStore == InitStore /\ [][NextStore]_vars

(***************************************************************************)
(* Properties                                                              *)
(***************************************************************************)
\* a resource with non-empty kind and non-empty name
Named(res) == res.kind # <<>> /\ res.name # <<>>

\* the number of named resources among resources[1..i]
RECURSIVE NamedCount(_)
NamedCount(i) ==
  IF i = 0 THEN 0 ELSE NamedCount(i - 1) + (IF Named(resources[i]) THEN 1 ELSE 0)

IsNotFound(o) == o.type = "ApiException" /\ o.status = 404

IsFailure(o) == o.type # "ok" /\ ~IsNotFound(o)

IsPrefix(s, t) == Len(s) <= Len(t) /\ SubSeq(t, 1, Len(s)) = s

FixedMessage == << [text |-> "Resource not found in cluster", path |-> <<>>, old |-> Absent, new |-> Absent] >>

\* C1: a failed call of get_resource, get_apps_resource or get_cluster_resource
\* becomes NotFound (a MISSING_LIVE diff and the loop goes on) exactly when its
\* status is 404; a failure with any other status, or of the transport, ends
\* detect_drift with the error: nothing is returned and no diff is appended for
\* the failing resource.
C1_FailurePropagates ==
  \A k \in 1..Len(outcomes) :
    LET o == outcomes[k]
        i == requests[k].idx
    IN /\ IsNotFound(o) =>
            /\ Len(diffs) >= NamedCount(i)
            /\ diffs[NamedCount(i)].status = "MISSING_LIVE"
       /\ IsFailure(o) =>
            /\ k = Len(outcomes)
            /\ pc = "raised"
            /\ ret.kind = "raised" /\ ret.diffs = <<>>
            /\ Len(diffs) = NamedCount(i - 1)
       /\ (Len(diffs) >= NamedCount(i) /\ diffs[NamedCount(i)].status = "MISSING_LIVE")
            => IsNotFound(o)

\* C1 witness: detect_drift has recorded a diff and then ends with the error of a
\* forbidden read of a cluster-scoped resource
C1_Witness ==
  /\ pc = "raised"
  /\ Len(diffs) = 1
  /\ Len(outcomes) = 2
  /\ outcomes[2] = ApiException(403)
  /\ requests[2].call.op = "get_cluster_resource"

\* C2: on NotFound, from a 404 or from a Gateway operation that has no fetcher,
\* detect_drift appends the MISSING_LIVE diff of the resource and moves to the
\* next resource; no step removes or changes a diff already recorded.
C2_NotFoundContinues ==
  /\ [][ /\ IsPrefix(diffs, diffs')
         /\ ( \/ (Len(outcomes') = Len(outcomes) + 1 /\ IsNotFound(outcomes'[Len(outcomes')]))
              \/ (Len(fetches') = Len(fetches) + 1 /\ requests' = requests) )
            => /\ diffs' = Append(diffs,
                    [api_version |-> resources[idx].api_version, kind |-> resources[idx].kind,
                     name |-> resources[idx].name, namespace |-> diffs'[Len(diffs')].namespace,
                     status |-> "MISSING_LIVE", details |-> FixedMessage])
               /\ pc' = "loop"
               /\ idx' = idx + 1 ]_vars
  /\ [](\A k \in 1..Len(outcomes) : IsNotFound(outcomes[k]) =>
          /\ (pc = "raised" => k < Len(outcomes))
          /\ (pc = "returned" => Len(ret.diffs) = NamedCount(Len(resources))))

\* C2 witness: a resource missing live is followed by the diff of a later resource
C2_Witness ==
  /\ Len(diffs) = 2
  /\ Len(outcomes) = 2
  /\ IsNotFound(outcomes[1])
  /\ diffs[1].status = "MISSING_LIVE"
  /\ diffs[2].status = "UNCHANGED"

\* C3: every ResourceDiff, recorded or returned, has status UNCHANGED, MODIFIED
\* or MISSING_LIVE; MISSING_LIVE has exactly the fixed message, MODIFIED has
\* details, UNCHANGED has none.
DiffWellFormed(d) ==
  /\ d.status \in {"UNCHANGED", "MODIFIED", "MISSING_LIVE"}
  /\ d.status # "EXTRA_LIVE"
  /\ d.status = "MISSING_LIVE" => d.details = FixedMessage
  /\ d.status = "MODIFIED" => d.details # <<>>
  /\ d.status = "UNCHANGED" => d.details = <<>>

C3_DiffStatusAndDetails ==
  /\ \A j \in 1..Len(diffs) : DiffWellFormed(diffs[j])
  /\ \A j \in 1..Len(ret.diffs) : DiffWellFormed(ret.diffs[j])
  /\ ret.kind = "DriftResult" => ret.diffs = diffs

\* C3 witness: a returned DriftResult with a MODIFIED and an UNCHANGED diff
C3_Witness ==
  /\ ret.kind = "DriftResult"
  /\ Len(ret.diffs) = 2
  /\ ret.diffs[1].status = "MODIFIED"
  /\ ret.diffs[2].status = "UNCHANGED"

\* C4: resources are handled one at a time in manifest order: every named
\* resource handled so far has exactly one fetch, at most one request to the
\* cluster and exactly one diff, in manifest order; the resource in flight has
\* its one request and no diff yet; an unnamed resource has no fetch, no request
\* and no diff.
Increasing(seq) == \A a, b \in 1..Len(seq) : a < b => seq[a] < seq[b]

LastFetch == fetches[Len(fetches)]

LastRes == resources[LastFetch.idx]

\* the latest fetch sent a request to the cluster
HasRequest == requests # <<>> /\ requests[Len(requests)].idx = LastFetch.idx

LastCall == requests[Len(requests)].call

\* the diff of the resource of the latest fetch has been appended
HasDiff == Len(diffs) = NamedCount(LastFetch.idx)

LastDiff == diffs[Len(diffs)]

\* the latest fetch returned None without a request
NotFoundNoRequest == ~HasRequest /\ HasDiff /\ LastDiff.status = "MISSING_LIVE"

TwelveKinds ==
  { S("ClusterRole"), S("ClusterRoleBinding"), S("IngressClass"),
    S("CustomResourceDefinition"), S("Namespace"), S("PersistentVolume"), S("Node"),
    S("StorageClass"), S("PriorityClass"), S("MutatingWebhookConfiguration"),
    S("ValidatingWebhookConfiguration"), S("PodSecurityPolicy") }

\* the Scope Classifier as the specification states it
ClusterScopedAsSpecified(kind, namespace) ==
  \/ kind \in TwelveKinds
  \/ /\ Len(kind) >= 7
     /\ SubSeq(kind, 1, 7) = <<"C", "l", "u", "s", "t", "e", "r">>
     /\ namespace = <<>>

\* the resource's namespace, else the release's
DeclaredOrRelease(res) == IF res.namespace # <<>> THEN res.namespace ELSE release.namespace

TypedCall(op, api, method, namespace) ==
  /\ HasRequest
  /\ LastCall = [op |-> op, api |-> api, method |-> method, group |-> <<>>, version |-> <<>>,
                 plural |-> <<>>, namespace |-> namespace, name |-> LastRes.name]

AppsMethod(k) ==
  CASE k = S("deployment") -> "read_namespaced_deployment"
    [] k = S("statefulset") -> "read_namespaced_stateful_set"
    [] k = S("daemonset") -> "read_namespaced_daemon_set"
    [] k = S("replicaset") -> "read_namespaced_replica_set"

CoreMethod(k) ==
  CASE k = S("service") -> "read_namespaced_service"
    [] k = S("configmap") -> "read_namespaced_config_map"
    [] k = S("secret") -> "read_namespaced_secret"
    [] k = S("serviceaccount") -> "read_namespaced_service_account"
    [] k = S("persistentvolumeclaim") -> "read_namespaced_persistent_volume_claim"
    [] k = S("pod") -> "read_namespaced_pod"
    [] k = S("endpoints") -> "read_namespaced_endpoints"

\* group and version of the grouped apiVersions of RouteApiVersions
GroupVersion(av) ==
  CASE av = S("apps/v1") -> << <<"a", "p", "p", "s">>, S("v1") >>
    [] av = S("rbac.authorization.k8s.io/v1") -> << SubSeq(av, 1, 25), S("v1") >>
    [] av = S("networking.k8s.io/v1") -> << SubSeq(av, 1, 17), S("v1") >>
    [] av = S("apiextensions.k8s.io/v1") -> << SubSeq(av, 1, 20), S("v1") >>
    [] av = S("storage.k8s.io/v1") -> << SubSeq(av, 1, 14), S("v1") >>
    [] av = S("rbac.authorization.k8s.io/v1beta1") -> << SubSeq(av, 1, 25), SubSeq(av, 27, 33) >>
    [] av = S("example.com/v1") -> << SubSeq(av, 1, 11), S("v1") >>
    [] av = S("example.com/a/v1") -> << SubSeq(av, 1, 13), S("v1") >>

Grouped(av) == \E i \in 1..Len(av) : av[i] = "/"

DynamicCall(op, method, namespace) ==
  /\ HasRequest
  /\ LastCall = [op |-> op, api |-> "custom", method |-> method,
                 group |-> GroupVersion(LastRes.api_version)[1],
                 version |-> GroupVersion(LastRes.api_version)[2],
                 plural |-> _kind_to_plural(LastRes.kind),
                 namespace |-> namespace, name |-> LastRes.name]

\* the routing of C5, for a given test of the kinds the apps fetch supports
Routing(AppsKind(_)) ==
  fetches # <<>> =>
    IF ClusterScopedAsSpecified(LastRes.kind, LastRes.namespace)
    THEN /\ LastFetch.op = "get_cluster_resource"
         /\ LastFetch.namespace = <<>>
         /\ HasRequest => LastCall.op = "get_cluster_resource" /\ LastCall.namespace = <<>>
    ELSE IF LastRes.api_version = S("apps/v1")
    THEN /\ LastFetch.op = "get_apps_resource"
         /\ IF AppsKind(LastRes.kind)
            THEN TypedCall("get_apps_resource", "apps_v1", AppsMethod(Lower(LastRes.kind)),
                           DeclaredOrRelease(LastRes))
            ELSE NotFoundNoRequest
    ELSE IF Grouped(LastRes.api_version)
    THEN /\ LastFetch.op = "get_resource"
         /\ DynamicCall("get_resource", "get_namespaced_custom_object", DeclaredOrRelease(LastRes))
    ELSE /\ LastFetch.op = "get_resource"
         /\ IF Lower(LastRes.kind) \in { S("service"), S("configmap"), S("secret"),
                                         S("serviceaccount"), S("persistentvolumeclaim"),
                                         S("pod"), S("endpoints") }
            THEN TypedCall("get_resource", "core_v1", CoreMethod(Lower(LastRes.kind)),
                           DeclaredOrRelease(LastRes))
            ELSE NotFoundNoRequest

AppsKindExact(kind) ==
  kind \in { S("Deployment"), S("StatefulSet"), S("DaemonSet"), S("ReplicaSet") }

AppsKindLowercased(kind) ==
  Lower(kind) \in { S("deployment"), S("statefulset"), S("daemonset"), S("replicaset") }

\* C5 as stated: in apps/v1 the typed fetch is made for the kinds Deployment,
\* StatefulSet, DaemonSet and ReplicaSet, and any other kind returns NotFound.
C5_Original == Routing(AppsKindExact)

\* C5 amended: a resource not classified cluster-scoped is routed by the first
\* rule that applies: apiVersion apps/v1 -> the typed apps fetch when the
\* lowercased kind is deployment, statefulset, daemonset or replicaset, else
\* NotFound without a request; apiVersion with a "/" -> the dynamic namespaced
\* fetch; else the core fetcher of the lowercased kind, or NotFound.  A
\* cluster-scoped resource takes get_cluster_resource, without a namespace.
C5_RoutingLowercasedKinds == Routing(AppsKindLowercased)

\* C5 witness: kind "deployment" of apps/v1 is read with the typed apps fetcher
C5_Witness ==
  /\ fetches # <<>>
  /\ LastRes.kind = S("deployment")
  /\ LastRes.api_version = S("apps/v1")
  /\ HasRequest
  /\ LastCall.method = "read_namespaced_deployment"
  /\ LastCall.namespace = S("prod")

SevenTypedKinds ==
  { S("ClusterRole"), S("ClusterRoleBinding"), S("IngressClass"),
    S("CustomResourceDefinition"), S("Namespace"), S("PersistentVolume"), S("Node") }

IsTypedCall == HasRequest /\ LastCall.api # "custom"

\* C6 as stated: get_cluster_resource uses a typed fetcher when the kind is one
\* of the seven, and the dynamic cluster fetch for every other kind, whatever
\* the apiVersion.
C6_Original ==
  (fetches # <<>> /\ LastFetch.op = "get_cluster_resource") =>
    IF LastRes.kind \in SevenTypedKinds
    THEN IsTypedCall
    ELSE HasRequest /\ LastCall.api = "custom" /\ LastCall.method = "get_cluster_custom_object"

TypedClusterMethod(av, kind) ==
  CASE av = S("rbac.authorization.k8s.io/v1") /\ kind = S("ClusterRole") -> <<"rbac_v1", "read_cluster_role">>
    [] av = S("rbac.authorization.k8s.io/v1") /\ kind = S("ClusterRoleBinding") -> <<"rbac_v1", "read_cluster_role_binding">>
    [] av = S("networking.k8s.io/v1") /\ kind = S("IngressClass") -> <<"networking_v1", "read_ingress_class">>
    [] av = S("apiextensions.k8s.io/v1") /\ kind = S("CustomResourceDefinition") -> <<"apiextensions_v1", "read_custom_resource_definition">>
    [] OTHER -> <<"none", "none">>

CoreClusterMethod(k) ==
  CASE k = S("namespace") -> "read_namespace"
    [] k = S("persistentvolume") -> "read_persistent_volume"
    [] k = S("node") -> "read_node"
    [] OTHER -> "none"

\* C6 amended: for a cluster-scoped resource whose apiVersion has a "/", the
\* typed fetcher is used when (apiVersion, kind) is ClusterRole or
\* ClusterRoleBinding of rbac.authorization.k8s.io/v1, IngressClass of
\* networking.k8s.io/v1 or CustomResourceDefinition of apiextensions.k8s.io/v1,
\* and the dynamic cluster fetch by (group, version, plural, name) otherwise;
\* when the apiVersion has no "/", the core fetcher is used for the lowercased
\* kinds namespace, persistentvolume and node, and every other kind returns
\* NotFound without a request.
C6_TypedByApiVersionAndKind ==
  (fetches # <<>> /\ LastFetch.op = "get_cluster_resource") =>
    IF Grouped(LastRes.api_version)
    THEN IF TypedClusterMethod(LastRes.api_version, LastRes.kind)[1] # "none"
         THEN TypedCall("get_cluster_resource",
                        TypedClusterMethod(LastRes.api_version, LastRes.kind)[1],
                        TypedClusterMethod(LastRes.api_version, LastRes.kind)[2], <<>>)
         ELSE DynamicCall("get_cluster_resource", "get_cluster_custom_object", <<>>)
    ELSE IF CoreClusterMethod(Lower(LastRes.kind)) # "none"
         THEN TypedCall("get_cluster_resource", "core_v1",
                        CoreClusterMethod(Lower(LastRes.kind)), <<>>)
         ELSE NotFoundNoRequest

\* C6 witness: a StorageClass with an ungrouped apiVersion is reported missing
\* without a request, and a Namespace of a grouped apiVersion is read dynamically
C6_Witness ==
  /\ fetches # <<>>
  /\ LastFetch.op = "get_cluster_resource"
  /\ \/ (LastRes.kind = S("StorageClass") /\ LastRes.api_version = S("v1") /\ NotFoundNoRequest)
     \/ (LastRes.kind = S("Namespace") /\ LastRes.api_version = S("example.com/v1")
         /\ HasRequest /\ LastCall.api = "custom")

\* C7 as stated: the namespace handed to the Scope Classifier is the resource's
\* namespace if non-empty and the release's namespace otherwise, at both sites.
C7_Original ==
  fetches # <<>> =>
    /\ scope.fetch_arg = DeclaredOrRelease(LastRes)
    /\ scope.diff_arg = DeclaredOrRelease(LastRes)

\* C7 amended: at both sites the namespace handed to the Scope Classifier is
\* the resource's own declared namespace, empty when it declares none; the
\* release's namespace is never handed to it.
C7_ScopeFromDeclaredNamespaceOnly ==
  fetches # <<>> =>
    /\ scope.fetch_arg = LastRes.namespace
    /\ scope.diff_arg = LastRes.namespace
    /\ LastRes.namespace = <<>> => scope.fetch_arg # release.namespace
    /\ scope.cluster_scoped = ClusterScopedAsSpecified(LastRes.kind, LastRes.namespace)
    /\ scope.fetch_cluster_scoped = ClusterScopedAsSpecified(LastRes.kind, LastRes.namespace)

\* C7 witness: a ClusterWidget that declares no namespace, in a release of
\* namespace prod, is classified cluster-scoped and fetched as such
C7_Witness ==
  /\ fetches # <<>>
  /\ LastRes.kind = S("ClusterWidget")
  /\ LastRes.namespace = <<>>
  /\ release.namespace = S("prod")
  /\ scope.fetch_arg = <<>>
  /\ scope.cluster_scoped
  /\ LastFetch.op = "get_cluster_resource"

\* C8: the namespace of a diff is empty when the resource is classified
\* cluster-scoped, else the resource's namespace if non-empty, else the
\* release's; for a namespaced resource it is the namespace of the fetch; it is
\* empty exactly when get_cluster_resource was taken.
C8_DiffNamespace ==
  (fetches # <<>> /\ HasDiff) =>
    /\ LastDiff.namespace =
         IF ClusterScopedAsSpecified(LastRes.kind, LastRes.namespace)
         THEN <<>> ELSE DeclaredOrRelease(LastRes)
    /\ LastFetch.op # "get_cluster_resource" =>
         /\ LastFetch.namespace = LastDiff.namespace
         /\ HasRequest => LastCall.namespace = LastDiff.namespace
    /\ LastDiff.namespace = <<>> <=> LastFetch.op = "get_cluster_resource"

\* C8 witness: a namespaced resource without a declared namespace is fetched in,
\* and recorded with, the release's namespace
C8_Witness ==
  /\ fetches # <<>>
  /\ HasDiff
  /\ HasRequest
  /\ LastRes.namespace = <<>>
  /\ LastFetch.op = "get_resource"
  /\ LastCall.namespace = S("prod")
  /\ LastDiff.namespace = S("prod")
  /\ LastDiff.status = "UNCHANGED"

\* C9: is_cluster_scoped(kind, namespace) is true exactly when kind is one of
\* the twelve kinds (as written, whatever the namespace) or kind begins with
\* "Cluster" and namespace is empty.
C9_ScopeClassifier ==
  /\ fetches # <<>> =>
       /\ scope.cluster_scoped = ClusterScopedAsSpecified(LastRes.kind, scope.diff_arg)
       /\ scope.fetch_cluster_scoped = ClusterScopedAsSpecified(LastRes.kind, scope.fetch_arg)
       /\ (LastRes.kind = S("ClusterRole") /\ scope.diff_arg = <<>>) => scope.cluster_scoped
       /\ (LastRes.kind = S("Pod") /\ scope.diff_arg = S("default")) => ~scope.cluster_scoped
       /\ (LastRes.kind = S("ClusterWidget") /\ scope.diff_arg = <<>>) => scope.cluster_scoped
       /\ (LastRes.kind = S("ClusterWidget") /\ scope.diff_arg = S("default")) => ~scope.cluster_scoped
       /\ LastRes.kind = S("clusterrole") => ~scope.cluster_scoped
       /\ LastRes.kind \in TwelveKinds => scope.cluster_scoped

\* C9 witness: ClusterWidget declared in namespace default is namespaced
C9_Witness ==
  /\ fetches # <<>>
  /\ LastRes.kind = S("ClusterWidget")
  /\ scope.diff_arg = S("default")
  /\ ~scope.cluster_scoped
  /\ LastFetch.op = "get_resource"

(***************************************************************************)
(* The Diff Engine, checked under SpecDiff.                                *)
(***************************************************************************)
\* two trees are equal up to the order of the elements inside sequences
RECURSIVE EqualUpToOrder(_, _)
EqualUpToOrder(a, b) ==
  IF a.t # b.t \/ a.ty # b.ty THEN FALSE
  ELSE CASE a.t = "list" ->
              /\ Len(a.l) = Len(b.l)
              /\ \E f \in Bijections(Len(a.l)) :
                   \A i \in 1..Len(a.l) : EqualUpToOrder(a.l[i], b.l[f[i]])
         [] a.t = "map" ->
              /\ Keys(a.m) = Keys(b.m)
              /\ \A k \in Keys(a.m) : EqualUpToOrder(Get(a.m, k, Absent), Get(b.m, k, Absent))
         [] OTHER -> a = b

\* the k-th request was answered with a live object
Compared(k) == k <= Len(outcomes) /\ outcomes[k].type = "ok"

StoredClean(k) == Dict(_strip_server_fields(resources[requests[k].idx].raw, <<>>))

LiveClean(k) == Dict(_strip_server_fields(outcomes[k].obj, <<>>))

DiffOf(k) == diffs[NamedCount(requests[k].idx)]

FieldA(tree, node) == Get(tree.m, S("a"), Absent) = node

\* C10: when the normalized live tree equals the normalized stored tree up to
\* the order of the elements inside sequences (an identical copy included),
\* the diff has status UNCHANGED and no details; so for {a:[1,2,3]} stored and
\* {a:[3,2,1]} live.
C10_EqualUpToOrderUnchanged ==
  \A k \in 1..Len(requests) : Compared(k) =>
    /\ EqualUpToOrder(StoredClean(k), LiveClean(k)) =>
         DiffOf(k).status = "UNCHANGED" /\ DiffOf(k).details = <<>>
    /\ StoredClean(k) = LiveClean(k) => DiffOf(k).status = "UNCHANGED"
    /\ ( /\ FieldA(StoredClean(k), List(<<Num(1), Num(2), Num(3)>>))
         /\ LiveClean(k).m = Put(StoredClean(k).m, S("a"), List(<<Num(3), Num(2), Num(1)>>)) )
       => DiffOf(k).status = "UNCHANGED"

\* C10 witness: a stored sequence of a sequence and a mapping is compared with
\* a live object that has the elements exchanged, the inner sequences in
\* another order and server-managed fields, and is reported UNCHANGED
C10_Witness ==
  /\ Len(requests) = 1
  /\ Compared(1)
  /\ FieldA(StoredClean(1), List(<< List(<<Num(1), Num(2)>>),
                                    Dict({ <<S("k"), List(<<Num(1), Num(2)>>)>> }) >>))
  /\ FieldA(LiveClean(1), List(<< Dict({ <<S("k"), List(<<Num(2), Num(1)>>)>> }),
                                  List(<<Num(2), Num(1)>>) >>))
  /\ S("status") \in Keys(outcomes[1].obj)
  /\ DiffOf(1).status = "UNCHANGED"
  /\ DiffOf(1).details = <<>>

(***************************************************************************)
(* The Field Normalizer, checked under SpecStrip on every tree detect_drift *)
(* hands to it: the raw document of each resource and each live object.    *)
(***************************************************************************)
\* the trees detect_drift has parsed or received
StripInputs ==
  { resources[i].raw : i \in 1..Len(resources) }
  \cup { outcomes[k].obj : k \in { j \in 1..Len(outcomes) : outcomes[j].type = "ok" } }

strip(x) == _strip_server_fields(x, <<>>)

\* the keys of a tree that are reached from the root through mappings only,
\* each as <<path, value>>, the path being the sequence of keys from the root
RECURSIVE KeysOf(_, _)
KeysOf(tree, path) ==
  UNION { { <<Append(path, p[1]), p[2]>> }
          \cup (IF p[2].t = "map" THEN KeysOf(p[2].m, Append(path, p[1])) ELSE {}) : p \in tree }

RECURSIVE Dotted(_)
Dotted(path) ==
  IF Len(path) = 1 THEN path[1]
  ELSE Dotted(SubSeq(path, 1, Len(path) - 1)) \o <<".">> \o path[Len(path)]

ServerManagedPaths ==
  { <<"m", "e", "t", "a", "d", "a", "t", "a", ".">> \o k :
      k \in { S("resourceVersion"), S("uid"), S("creationTimestamp"), S("generation"),
              S("managedFields"), S("selfLink"),
              S("annotations") \o <<".">> \o LastApplied } }
  \cup { S("status") }

\* the key at path, or a mapping above it, is one of the server-managed paths
Stripped(path) == \E n \in 1..Len(path) : Dotted(SubSeq(path, 1, n)) \in ServerManagedPaths

\* the keys of x that hold a value other than a mapping
Values(x) == { kv \in KeysOf(x, <<>>) : kv[2].t # "map" }

\* C11: the Field Normalizer removes exactly the keys at the eight
\* server-managed paths (with what is below them); every other key whose
\* value is not a mapping is kept with its value, so status, uid or generation
\* at another path survive; nothing is added; the input is left as it was.
C11_StripsExactlyServerPaths ==
  /\ \A x \in StripInputs :
       /\ Values(strip(x)) = { kv \in Values(x) : ~Stripped(kv[1]) }
       /\ \A kv \in KeysOf(strip(x), <<>>) : Dotted(kv[1]) \notin ServerManagedPaths
       /\ \A kv \in KeysOf(strip(x), <<>>) : \E kw \in KeysOf(x, <<>>) : kw[1] = kv[1]
  /\ (pc \notin { "start" } /\ ~parse_manifest(release.manifest).raised) =>
       resources = parse_manifest(release.manifest).resources

\* C11 witness: a live object with metadata.uid, a top-level status and
\* spec.status, spec.uid was compared; its normalized tree keeps spec.status and
\* spec.uid and has neither metadata.uid nor status
C11_Witness ==
  \E k \in 1..Len(outcomes) :
    /\ outcomes[k].type = "ok"
    /\ LET x == outcomes[k].obj IN
       /\ <<<<S("metadata"), S("uid")>>, Str(S("a"))>> \in Values(x)
       /\ S("status") \in Keys(x)
       /\ <<<<S("spec"), S("status")>>, Str(S("v"))>> \in Values(strip(x))
       /\ <<<<S("spec"), S("uid")>>, Str(S("a"))>> \in Values(strip(x))
       /\ S("status") \notin Keys(strip(x))
       /\ \A kv \in Values(strip(x)) : kv[1] # <<S("metadata"), S("uid")>>
    /\ Len(diffs) = 1

\* C12: the Field Normalizer is idempotent: normalizing a normalized tree
\* gives the same tree.
C12_StripIdempotent ==
  \A x \in StripInputs : strip(strip(x)) = strip(x)

\* C12 witness: a live object was compared whose annotations hold only the
\* last-applied configuration and whose spec holds an empty template: the
\* normalized tree has lost metadata.annotations, status and spec, and
\* normalizing it again changes nothing
C12_Witness ==
  \E k \in 1..Len(outcomes) :
    /\ outcomes[k].type = "ok"
    /\ Len(diffs) = 1
    /\ LET x == outcomes[k].obj IN
       /\ Get(Get(x, S("metadata"), Absent).m, S("annotations"), Absent)
            = Dict({ <<LastApplied, Str(S("v"))>> })
       /\ Get(x, S("spec"), Absent) = Dict({ <<S("template"), Dict({})>> })
       /\ S("status") \in Keys(x)
       /\ Keys(strip(x)) = { S("apiVersion"), S("kind"), S("metadata") }
       /\ Keys(Get(strip(x), S("metadata"), Absent).m) = { S("name") }
       /\ strip(strip(x)) = strip(x)

EmptyMapping == Dict({})

\* C13: in the normalized tree no key reached through mappings holds an empty
\* mapping, whether the mapping was empty in the input or became empty; a
\* stored field "k: {}" and a live object without that field normalize to equal
\* trees and compare as UNCHANGED; a sequence keeps its mappings, empty or not.
C13_NoEmptyMappingLeft ==
  /\ \A x \in StripInputs :
       /\ \A kv \in KeysOf(strip(x), <<>>) : kv[2] # EmptyMapping
       /\ \A kv \in Values(x) : (kv[2].t = "list" /\ ~Stripped(kv[1])) => kv \in Values(strip(x))
  /\ \A k \in 1..Len(requests) : Compared(k) =>
       \A key \in Keys(resources[requests[k].idx].raw) :
         ( /\ Get(resources[requests[k].idx].raw, key, Absent) = EmptyMapping
           /\ outcomes[k].obj = { p \in resources[requests[k].idx].raw : p[1] # key } )
         => /\ StoredClean(k) = LiveClean(k)
            /\ DiffOf(k).status = "UNCHANGED"

\* C13 witness: the stored document has "spec: {}" and a sequence holding an
\* empty mapping, the live object has no spec, and the diff is UNCHANGED
C13_Witness ==
  /\ Len(requests) = 1
  /\ Compared(1)
  /\ Get(resources[1].raw, S("spec"), Absent) = EmptyMapping
  /\ Get(resources[1].raw, S("a"), Absent)
       = List(<< Dict({ <<S("status"), Str(S("v"))>> }), EmptyMapping >>)
  /\ S("spec") \notin Keys(outcomes[1].obj)
  /\ Get(StoredClean(1).m, S("a"), Absent) = Get(resources[1].raw, S("a"), Absent)
  /\ S("spec") \notin Keys(StoredClean(1).m)
  /\ DiffOf(1).status = "UNCHANGED"

(***************************************************************************)
(* The details of a MODIFIED diff, checked under Spec.                     *)
(***************************************************************************)
\* the value at a path of keys, Absent when the path leads nowhere
RECURSIVE At(_, _)
At(node, path) ==
  IF path = <<>> THEN node
  ELSE IF node.t # "map" THEN Absent
  ELSE At(Get(node.m, Head(path), Absent), Tail(path))

Parent(path) == SubSeq(path, 1, Len(path) - 1)

KeyPaths(tree) == { kv[1] : kv \in KeysOf(tree.m, <<>>) }

Entries(k, text) == { j \in 1..Len(DiffOf(k).details) : DiffOf(k).details[j].text = text }

\* the details of the diff of the k-th request report each difference between
\* the normalized trees under its category
DetailsByCategory(k) ==
  LET stored == StoredClean(k)
      clean == LiveClean(k)
      details == DiffOf(k).details
  IN /\ \A path \in KeyPaths(stored) \cap KeyPaths(clean) :
          ( /\ At(stored, path).t = "scalar"
            /\ At(clean, path).ty = At(stored, path).ty
            /\ At(clean, path) # At(stored, path) )
          => /\ DiffOf(k).status = "MODIFIED"
             /\ Cardinality({ j \in Entries(k, "Changed") : details[j].path = path }) = 1
             /\ \A j \in Entries(k, "Changed") : details[j].path = path =>
                  details[j].old = At(stored, path) /\ details[j].new = At(clean, path)
     /\ \A path \in KeyPaths(clean) \ KeyPaths(stored) :
          At(stored, Parent(path)).t = "map" =>
            /\ DiffOf(k).status = "MODIFIED"
            /\ Cardinality({ j \in Entries(k, "Added") : details[j].path = path }) = 1
     /\ \A path \in KeyPaths(stored) \ KeyPaths(clean) :
          At(clean, Parent(path)).t = "map" =>
            /\ DiffOf(k).status = "MODIFIED"
            /\ Cardinality({ j \in Entries(k, "Removed") : details[j].path = path }) = 1
     /\ ( /\ At(stored, <<S("spec"), S("replicas")>>) = Num(3)
          /\ At(clean, <<S("spec"), S("replicas")>>) = Num(5) )
        => \E j \in Entries(k, "Changed") :
             /\ details[j].path[Len(details[j].path)] = S("replicas")
             /\ details[j].old = Num(3)
             /\ details[j].new = Num(5)
     /\ ( /\ At(stored, <<S("data"), S("k")>>) = Str(S("v"))
          /\ clean.m = Put(stored.m, S("data"), Dict({ <<S("k"), Str(S("v2"))>> })) )
        => details = << Detail("Changed", <<S("data"), S("k")>>, Str(S("v")), Str(S("v2"))) >>

\* every compared resource has its differences reported by category
DetailsOfCompared == \A k \in 1..Len(requests) : Compared(k) => DetailsByCategory(k)

\* C14: when the normalized stored and live trees differ (other than in the
\* order of the elements of sequences), the diff is MODIFIED, and a changed
\* scalar is reported by one "Changed" entry with the path and both values, a
\* key only in live by an "Added" entry, a key only in stored by a "Removed"
\* entry; replicas 3 against 5 and data.k "v" against "v2" are reported so.
C14_DifferentTreesModified ==
  \A k \in 1..Len(requests) : Compared(k) =>
    /\ ~EqualUpToOrder(StoredClean(k), LiveClean(k)) => DiffOf(k).status = "MODIFIED"
    /\ DetailsByCategory(k)

(***************************************************************************)
(* The Manifest Parser, checked under SpecParse.                           *)
(***************************************************************************)
\* parse_manifest has returned
Parsed == pc \notin { "start" } /\ ~(pc = "raised" /\ idx = 0)

\* parse_manifest has raised
ParseFailed == pc = "raised" /\ idx = 0

\* the documents of the manifest that deserialize to a non-empty mapping
MappingDocs == { i \in 1..Len(release.manifest) :
                   release.manifest[i].t = "map" /\ release.manifest[i].m # {} }

\* the place in the manifest of the j-th mapping document
NthMappingDoc(j) == CHOOSE i \in MappingDocs : Cardinality({ h \in MappingDocs : h <= i }) = j

C16_MalformedDocumentSkipped ==
  (\E i \in 1..Len(release.manifest) : release.manifest[i] = Malformed) =>
    /\ ~ParseFailed
    /\ Parsed => Len(resources) = Cardinality(MappingDocs)
    /\ ret.kind # "raised" \/ idx > 0

Lacks(doc, key) == key \notin Keys(doc.m)

\* a mapping document whose metadata is absent, null or a mapping
ReadableMetadata(doc) ==
  \/ Lacks(doc, S("metadata"))
  \/ Get(doc.m, S("metadata"), Absent) = Null
  \/ Get(doc.m, S("metadata"), Absent).t = "map"

FieldOr(tree, key) == IF key \in Keys(tree) THEN Get(tree, key, Absent).str ELSE <<>>

Marks(doc, key) ==
  IF doc.t = "map" /\ Get(doc.m, S("metadata"), Absent).t = "map"
     /\ Get(Get(doc.m, S("metadata"), Absent).m, key, Absent).t = "map"
  THEN Get(Get(doc.m, S("metadata"), Absent).m, key, Absent).m
  ELSE {}

ArgoMarked(doc) ==
  \/ S("argocd.argoproj.io/instance") \in Keys(Marks(doc, S("labels")))
  \/ S("argocd.argoproj.io/tracking-id") \in Keys(Marks(doc, S("annotations")))

FluxMarked(doc) == S("helm.toolkit.fluxcd.io/name") \in Keys(Marks(doc, S("labels")))

\* the value of app.kubernetes.io/managed-by in the mapping key of doc
ManagedByValue(doc, key) ==
  StrOf(Get(Marks(doc, key), S("app.kubernetes.io/managed-by"), Str(<<>>)))

ManifestHas(P(_)) == \E i \in 1..Len(release.manifest) : P(release.manifest[i])

\* the custom resources answered to the n-th lookup hold one named as the release
Listed(n) ==
  /\ Len(answers) >= n
  /\ answers[n].type = "ok"
  /\ \E i \in 1..Len(answers[n].items) : answers[n].items[i] = Item(release.name)

CheckOrder == <<"argocd", "flux", "k3s", "managed-by">>

LookupOrder == << flux_lookup(release), k3s_lookup(release) >>

C19_ManagedByAnnotation ==
  (opc = "returned" /\ checks = CheckOrder) =>
    IF \E i \in 1..Len(release.manifest) :
         /\ Truthy(ManagedByValue(release.manifest[i], S("annotations")))
         /\ Lower(ManagedByValue(release.manifest[i], S("annotations"))) # S("helm")
    THEN owner.controller = "UNKNOWN" /\ owner.confidence = "MEDIUM"
    ELSE owner.controller = "HELM_NATIVE" /\ owner.confidence = "LOW"

\* C20: a lookup of the Flux HelmReleases or of the k3s HelmCharts that fails
\* (CRD absent, RBAC denial, any other error) counts as "no match":
\* detect_owner raises nothing because of it, goes on with the next check in
\* order and returns an OwnerInfo.
C20_LookupFailureIsNoMatch ==
  /\ (Len(answers) >= 1 /\ answers[1].type # "ok") =>
       /\ opc \in {"k3s_lookup", "returned"}
       /\ Len(checks) >= 3
       /\ lookups = LookupOrder
  /\ (Len(answers) = 2 /\ answers[2].type # "ok") =>
       /\ opc = "returned"
       /\ checks = CheckOrder
       /\ owner = after_lookups(release.manifest).info
       /\ owner # NoOwner

\* the indices of the diffs of the returned DriftResult that have status value v
WithStatus(v) == { i \in 1..Len(ret.diffs) : DiffStatus_value(ret.diffs[i].status) = v }

StatusValues == {"unchanged", "modified", "missing_live", "extra_live"}

RECURSIVE SumOver(_, _)
SumOver(f, keys) ==
  IF keys = {} THEN 0
  ELSE LET k == CHOOSE x \in keys : TRUE IN f[k] + SumOver(f, keys \ {k})

\* C21: for every returned DriftResult, has_drift is true exactly when some
\* diff has a status other than UNCHANGED; summary has exactly the status
\* values that occur as keys, each mapped to the number of diffs with that
\* status, and its counts sum to the number of diffs; a release whose only
\* resource is missing live gives one MISSING_LIVE diff, has_drift true and
\* summary {missing_live: 1}.
C21_HasDriftAndSummary ==
  ret.kind = "DriftResult" =>
    /\ DriftResult_has_drift(ret.diffs) <=>
         (\E i \in 1..Len(ret.diffs) : ret.diffs[i].status # "UNCHANGED")
    /\ DOMAIN summary(ret.diffs) = { v \in StatusValues : WithStatus(v) # {} }
    /\ \A v \in DOMAIN summary(ret.diffs) : summary(ret.diffs)[v] = Cardinality(WithStatus(v))
    /\ SumOver(summary(ret.diffs), DOMAIN summary(ret.diffs)) = Len(ret.diffs)
    /\ (Len(resources) = 1 /\ Len(diffs) = 1 /\ ~live.found) =>
         /\ ret.diffs[1].status = "MISSING_LIVE"
         /\ DriftResult_has_drift(ret.diffs)
         /\ summary(ret.diffs) = [v \in {"missing_live"} |-> 1]

\* C21 witness: a DriftResult with two diffs, both of status MODIFIED, was
\* returned: has_drift is true and summary is {modified: 2}
C21_Witness ==
  /\ ret.kind = "DriftResult"
  /\ Len(ret.diffs) = 2
  /\ ret.diffs[1].status = "MODIFIED"
  /\ ret.diffs[2].status = "MODIFIED"
  /\ summary(ret.diffs) = [v \in {"modified"} |-> 2]
  /\ DriftResult_has_drift(ret.diffs)

\* C22: every request sent to the cluster API, the single-object fetches of
\* get_resource, get_apps_resource and get_cluster_resource included, is
\* issued with a fixed finite request timeout.
C22_EveryRequestHasTimeout ==
  \A i \in 1..Len(requests) : _request_timeout(requests[i].call.method) # NoTimeout

\* the sidecar a run saw when _load_index was called could not be used: it was
\* absent, older than the index file, or no JSON
Unusable(p) ==
  \/ ~loader[p].at_call.sidecar.exists
  \/ loader[p].at_call.sidecar.mtime < loader[p].at_call.index.mtime
  \/ loader[p].at_call.sidecar.content = CorruptText

\* the sidecar a run saw when _load_index was called was absent or older than
\* the index file
Stale(p) ==
  \/ ~loader[p].at_call.sidecar.exists
  \/ loader[p].at_call.sidecar.mtime < loader[p].at_call.index.mtime

Returned(p) == loader[p].pc = "returned"

RunAsAmended(p) ==
  /\ loader[p].via = "memo" =>
       loader[p].result = _index_cache[p].value /\ loader[p].wrote = "none"
  /\ loader[p].via = "sidecar" =>
       /\ ~Stale(p)
       /\ ~json_loads(loader[p].text).raised
       /\ loader[p].result = json_loads(loader[p].text).value
       /\ loader[p].wrote = "none"
  /\ loader[p].via = "index" =>
       /\ Stale(p) \/ json_loads(loader[p].text).raised
       /\ loader[p].result = lightweight(loader[p].read)
       /\ index_unusable(loader[p].read) => loader[p].result = Null /\ loader[p].wrote = "none"
       /\ ~index_unusable(loader[p].read) => loader[p].wrote \in {"ok", "failed"}
  /\ loader[p].via # "memo" /\ Stale(p) => loader[p].via = "index"
  /\ loader[p].via \in {"memo", "sidecar", "index"}

\* the step that ends a run which extracted the data and could write rewrites
\* the sidecar with that data; no other step of a run touches the sidecar
SidecarRewritten(p) ==
  IF loader[p].pc = "write" /\ loader'[p].pc = "returned" /\ loader'[p].wrote = "ok"
  THEN sidecar' = File(TRUE, json_dumps(loader'[p].result), clock') /\ sidecar'.mtime > index.mtime
  ELSE loader'[p] # loader[p] => sidecar' = sidecar

C26_FreshSidecarIsCurrent ==
  (_sidecar_is_fresh(index, sidecar) /\ ~json_loads(sidecar.content).raised) =>
    sidecar.content = json_dumps(lightweight(index.content))

\* the last character of a string, "" for the empty string
LastChar(s) == IF s = <<>> THEN "" ELSE s[Len(s)]

\* p is the plural the rule of C24 gives for the lowercased kind k
PluralByRule(k, p) ==
  CASE LastChar(k) = "s" -> p = k \o <<"e", "s">>
    [] LastChar(k) = "y" ->
         /\ Len(p) = Len(k) + 2
         /\ \A i \in 1..(Len(k) - 1) : p[i] = k[i]
         /\ SubSeq(p, Len(k), Len(k) + 2) = <<"i", "e", "s">>
    [] OTHER -> p = k \o <<"s">>

\* C24: on the generic dynamic fetch paths the plural is the lowercased kind
\* with "es" appended when it ends in "s", its final "y" replaced by "ies"
\* when it ends in "y", and "s" appended otherwise (Ingress -> ingresses,
\* NetworkPolicy -> networkpolicies, Job -> jobs, Gateway -> gatewaies); group
\* and version are the parts of apiVersion before and after its last "/".
C24_PluralGroupVersion ==
  (HasRequest /\ LastCall.api = "custom") =>
    /\ PluralByRule(Lower(LastRes.kind), LastCall.plural)
    /\ LastRes.kind = S("Ingress") => LastCall.plural = S("ingresses")
    /\ LastRes.kind = S("NetworkPolicy") => LastCall.plural = S("networkpolicies")
    /\ LastRes.kind = S("Job") => LastCall.plural = S("jobs")
    /\ LastRes.kind = S("Gateway") => LastCall.plural = S("gatewaies")
    /\ LastCall.group \o <<"/">> \o LastCall.version = LastRes.api_version
    /\ ~Contains(LastCall.version, "/")

\* C24 witness: the Gateway "web" of apiVersion example.com/a/v1 was fetched
\* on the dynamic path with plural gatewaies, group example.com/a, version v1
C24_Witness ==
  /\ HasRequest
  /\ LastRes.kind = S("Gateway")
  /\ LastRes.api_version = S("example.com/a/v1")
  /\ LastCall.api = "custom"
  /\ LastCall.plural = S("gatewaies")
  /\ LastCall.group = S("example.com/a")
  /\ LastCall.version = S("v1")

CoreKindExact(kind) ==
  kind \in { S("Service"), S("ConfigMap"), S("Secret"), S("ServiceAccount"),
             S("PersistentVolumeClaim"), S("Pod"), S("Endpoints") }

CoreKindLowercased(kind) ==
  Lower(kind) \in { S("service"), S("configmap"), S("secret"), S("serviceaccount"),
                    S("persistentvolumeclaim"), S("pod"), S("endpoints") }

\* the Gateway has no fetcher for the resource: cluster-scoped with an
\* ungrouped apiVersion and a kind outside Namespace, PersistentVolume and
\* Node; or namespaced with apiVersion apps/v1 and a kind outside the apps
\* kinds, or with an ungrouped apiVersion and a kind outside the core kinds
NoFetcher(res, AppsKind(_), CoreKind(_)) ==
  IF ClusterScopedAsSpecified(res.kind, res.namespace)
  THEN ~Grouped(res.api_version)
       /\ res.kind \notin { S("Namespace"), S("PersistentVolume"), S("Node") }
  ELSE \/ res.api_version = S("apps/v1") /\ ~AppsKind(res.kind)
       \/ ~Grouped(res.api_version) /\ ~CoreKind(res.kind)

\* C25 as stated: a resource whose kind is outside the listed kinds, as
\* written, is reported MISSING_LIVE and no request is sent for it.
C25_Original ==
  (fetches # <<>> /\ NoFetcher(LastRes, AppsKindExact, CoreKindExact)) => NotFoundNoRequest

\* C25 amended: a named resource whose kind, compared in lower case, is
\* outside the seven core kinds (ungrouped apiVersion) or outside deployment,
\* statefulset, daemonset and replicaset (apps/v1), or which is cluster-scoped
\* with an ungrouped apiVersion and a kind outside Namespace, PersistentVolume
\* and Node, is reported MISSING_LIVE whatever the cluster contains, and no
\* request is sent to the cluster for it.
C25_NoFetcherMissingLive ==
  (fetches # <<>> /\ NoFetcher(LastRes, AppsKindLowercased, CoreKindLowercased)) =>
    /\ NotFoundNoRequest
    /\ requests = <<>>
    /\ pc = "returned" => ret.diffs = << LastDiff >>

\* C25 witness: the ReplicationController "web" of apiVersion v1 was reported
\* MISSING_LIVE by detect_drift without any request
C25_Witness ==
  /\ pc = "returned"
  /\ Len(resources) = 1
  /\ resources[1].kind = S("ReplicationController")
  /\ resources[1].api_version = S("v1")
  /\ requests = <<>>
  /\ Len(ret.diffs) = 1
  /\ ret.diffs[1].status = "MISSING_LIVE"

(***************************************************************************)
(* Update checker                                                          *)
(***************************************************************************)
\* the version strings of the inputs that are versions, read by hand
Parsable(v) == v \in { S("1.0.0"), S("1.0.1"), S("1.1.0"), S("v1.1.0"), S("2.0.0") }

\* their major, minor and patch numbers
Numbers(v) ==
  CASE v = S("1.0.0") -> <<1, 0, 0>>
    [] v = S("1.0.1") -> <<1, 0, 1>>
    [] v = S("1.1.0") -> <<1, 1, 0>>
    [] v = S("v1.1.0") -> <<1, 1, 0>>
    [] v = S("2.0.0") -> <<2, 0, 0>>

\* a is a later version than b
Later(a, b) ==
  \/ Numbers(a)[1] > Numbers(b)[1]
  \/ Numbers(a)[1] = Numbers(b)[1] /\ Numbers(a)[2] > Numbers(b)[2]
  \/ Numbers(a)[1] = Numbers(b)[1] /\ Numbers(a)[2] = Numbers(b)[2] /\ Numbers(a)[3] > Numbers(b)[3]

\* C27: every UpdateInfo of check_updates has update_type major, minor, patch
\* or up-to-date, never unknown; a release whose current version does not
\* parse is reported up-to-date with latest_version = current_version; when
\* a newer version was found the type is major if the major number grew,
\* else minor if the minor number grew, else patch.
C27_UpdateTypeNeverUnknown ==
  \A i \in 1..Len(results) :
    LET r == results[i]
    IN /\ r.update_type \in {"major", "minor", "patch", "up-to-date"}
       /\ ~Parsable(r.current_version)
            => r.update_type = "up-to-date" /\ r.latest_version = r.current_version
       /\ r.latest_version # r.current_version
            => r.update_type =
                 IF Numbers(r.latest_version)[1] > Numbers(r.current_version)[1] THEN "major"
                 ELSE IF Numbers(r.latest_version)[2] > Numbers(r.current_version)[2] THEN "minor"
                 ELSE "patch"

\* C27 witness: check_updates has returned, one release got a minor update
\* and the release whose current version is "latest" is reported up-to-date.
C27_Witness ==
  /\ upc = 0
  /\ \E i \in 1..Len(results) : results[i].update_type = "minor"
  /\ \E i \in 1..Len(results) :
       /\ results[i].current_version = S("latest")
       /\ results[i].update_type = "up-to-date"

\* the releases check_updates has gone through so far
Visited == IF upc = 0 THEN releases ELSE SubSeq(releases, 1, upc - 1)

HasChart(rel) == rel.chart_name # <<>> /\ rel.chart_version # <<>>

\* the versions any repository index lists for a chart
ListedVersions(chart_name) ==
  { StrOf(Get(e.m, S("version"), Absent)) :
      e \in UNION { { Get(repos[i].data.m, chart_name, List(<<>>)).l[j] :
                        j \in 1..Len(Get(repos[i].data.m, chart_name, List(<<>>)).l) } :
                    i \in { k \in 1..Len(repos) : repos[k].data # Null } } }

\* the listed versions that parse and are strictly later than the current one
LaterListed(rel) ==
  { v \in ListedVersions(rel.chart_name) :
      Parsable(v) /\ Parsable(rel.chart_version) /\ Later(v, rel.chart_version) }

\* the repositories visited in the opposite order, each with its versions
\* in the opposite order
Backwards(seq) == [i \in 1..Len(seq) |-> seq[Len(seq) + 1 - i]]

BackwardsRepos ==
  Backwards([i \in 1..Len(repos) |->
    IF repos[i].data = Null THEN repos[i]
    ELSE Repo(repos[i].name,
              Dict({ <<p[1], List(Backwards(p[2].l))>> : p \in repos[i].data.m }))])

\* C28: the releases with a chart name and a chart version get one
\* UpdateInfo each, in order, and the others none; latest_version is a
\* greatest one of the listed versions that parse and are strictly newer
\* than the current version, or the current version with type up-to-date
\* when there is none; visiting repositories and versions in the opposite
\* order gives a version with the same numbers.
C28_LatestIsGreatestListed ==
  LET checked == SelectSeq(Visited, HasChart)
  IN /\ Len(results) = Len(checked)
     /\ \A i \in 1..Len(results) :
          LET r == results[i]
              rel == checked[i]
          IN /\ r.chart_name = rel.chart_name
             /\ r.current_version = rel.chart_version
             /\ IF LaterListed(rel) = {}
                THEN r.latest_version = rel.chart_version /\ r.update_type = "up-to-date"
                ELSE /\ r.latest_version \in LaterListed(rel)
                     /\ \A w \in LaterListed(rel) : ~Later(w, r.latest_version)
                     /\ Numbers(update_of(rel, BackwardsRepos).latest_version)
                          = Numbers(r.latest_version)

\* C28 witness: check_updates has returned four UpdateInfo for the six
\* releases; the indexes list "latest", "1.1.0" and "v1.1.0" for nginx and
\* the release at 1.0.0 is reported "v1.1.0" as its latest version.
C28_Witness ==
  /\ upc = 0
  /\ Len(results) = 4
  /\ { S("latest"), S("1.1.0"), S("v1.1.0") } \subseteq ListedVersions(S("nginx"))
  /\ results[1].current_version = S("1.0.0")
  /\ results[1].latest_version = S("v1.1.0")

(***************************************************************************)
(* Release store                                                           *)
(***************************************************************************)
\* the revision a storage object is labelled with, read by hand (0 without
\* a version label)
RevisionLabel(obj) ==
  IF <<S("version"), S("1")>> \in obj.labels THEN 1
  ELSE IF <<S("version"), S("2")>> \in obj.labels THEN 2
  ELSE IF <<S("version"), S("10")>> \in obj.labels THEN 10
  ELSE 0

\* the positions of the Helm release secrets of the cluster that carry the
\* name asked for, in the namespace asked for when one is given
Matched ==
  { i \in 1..Len(secrets) :
      /\ <<S("owner"), S("helm")>> \in secrets[i].labels
      /\ <<S("name"), query.name>> \in secrets[i].labels
      /\ secrets[i].type = S("helm.sh/release.v1")
      /\ query.namespace # <<>> => secrets[i].namespace = query.namespace }

\* the first listed of the matched objects with the highest revision label
Highest ==
  CHOOSE i \in Matched :
    \A j \in Matched :
      \/ RevisionLabel(secrets[j]) < RevisionLabel(secrets[i])
      \/ RevisionLabel(secrets[j]) = RevisionLabel(secrets[i]) /\ i <= j

\* C29: get_release returns None when no storage object matches; otherwise
\* it returns what decodes from the matched object with the highest
\* revision label, the first listed on a tie, where the matched objects are
\* those of the given namespace, or of all namespaces when none is given.
C29_HighestRevisionAmongMatched ==
  got.returned =>
    IF Matched = {} THEN got.value.none
    ELSE IF ~secrets[Highest].data.decodes THEN got.value.none
    ELSE /\ ~got.value.none
         /\ got.value.name = secrets[Highest].data.name
         /\ got.value.namespace = secrets[Highest].data.namespace
         /\ got.value.version = secrets[Highest].data.version

\* C29 witness: no namespace is given, the cluster lists revision 2 of web
\* in namespace default before revision 10 of web in namespace prod, and
\* get_release has returned the release of namespace prod.
C29_Witness ==
  /\ got.returned
  /\ query.namespace = <<>>
  /\ Len(secrets) >= 2
  /\ secrets[1].namespace = S("default") /\ RevisionLabel(secrets[1]) = 2
  /\ secrets[2].namespace = S("prod") /\ RevisionLabel(secrets[2]) = 10
  /\ ~got.value.none
  /\ got.value.namespace = S("prod")
  /\ got.value.version = 10

\* C30: for every release whose manifest parse_manifest accepts, detect_owner
\* returns an OwnerInfo and never raises, including when a document's
\* metadata, labels or annotations is present but null or not a mapping.
C30_NeverRaisesOnAcceptedManifest ==
  ~parse_manifest(release.manifest).raised => opc # "raised"
====
